---------------------------- MODULE Spec2Model ----------------------------
(***************************************************************************)
(* A model of the zoekt core: the blocked Bloom filter over word           *)
(* fragments (bloom.go), the delta encoding of posting lists and the       *)
(* index-data to index-builder conversion (convert), and the sharded       *)
(* fan-out searcher.                                                       *)
(*                                                                         *)
(* Conventions.                                                            *)
(*  - A byte is an integer in 0..255; a byte slice is a sequence of bytes. *)
(*    Go indexes from 0 and TLA+ from 1: a Go index i is kept as i and     *)
(*    the element read as s[i + 1].                                        *)
(*  - A uint32 hash value is the set of its one-bits, a subset of 0..31    *)
(*    (TLC's integers are 32-bit signed and cannot hold a uint32): xor is  *)
(*    the symmetric difference, a shift moves the elements, and a         *)
(*    multiplication by 2^n drops what leaves 0..31, as the 32-bit         *)
(*    product wraps.                                                       *)
(*  - A byte of a filter's bit array is the set of its one-bits, a subset  *)
(*    of 0..7: |= is union and OnesCount8 is the cardinality.              *)
(***************************************************************************)
EXTENDS Integers, Sequences, FiniteSets, TLC

\* ------------------------------------------------------------------ helpers

Max(a, b) == IF a >= b THEN a ELSE b

RECURSIVE Pow2(_)
Pow2(n) == IF n = 0 THEN 1 ELSE 2 * Pow2(n - 1)

\* s[from:to] of Go: the elements at the 0-based indexes from..to-1.
Slice(s, from, to) == SubSeq(s, from + 1, to)

RECURSIVE bitsValue(_, _, _)
\* Horner's rule over the bit positions i down to 0.
bitsValue(s, i, acc) ==
    IF i < 0 THEN acc
    ELSE bitsValue(s, i - 1, 2 * acc + (IF i \in s THEN 1 ELSE 0))

\* The number whose one-bits are the elements of the set s, a subset of 0..30.
SumBits(s) == bitsValue(s, 30, 0)

\* The one-bits of the byte x.
ByteBits(x) == {i \in 0..7 : (x \div Pow2(i)) % 2 = 1}

\* ------------------------------------------------------ uint32 as bit sets

U32Xor(a, b) == (a \ b) \cup (b \ a)

U32Shr(a, n) == {i - n : i \in {x \in a : x >= n}}

\* a * 2^n in 32 bits: the bits shifted past bit 31 are lost.
U32Shl(a, n) == {i + n : i \in {x \in a : x + n <= 31}}

\* a % 2^n
U32Low(a, n) == {i \in a : i < n}

\* ------------------------------------------------------------------ crc32c

\* crc32.Castagnoli, 0x82f63b78, the reversed polynomial of crcTab.
Castagnoli == {31, 25, 23, 22, 21, 20, 18, 17, 13, 12, 11, 9, 8, 6, 5, 4, 3}

RECURSIVE crcRounds(_, _)
\* The eight shift-and-xor rounds that make one entry of the table.
crcRounds(crc, n) ==
    IF n = 0 THEN crc
    ELSE crcRounds(IF 0 \in crc THEN U32Xor(U32Shr(crc, 1), Castagnoli)
                                ELSE U32Shr(crc, 1),
                   n - 1)

\* crc32.MakeTable(crc32.Castagnoli), indexed by the one-bits of the byte.
crcTab == [b \in SUBSET (0..7) |-> crcRounds(b, 8)]

RECURSIVE crcUpdate(_, _, _)
\* crc = tab[byte(crc)^v] ^ (crc >> 8) for the bytes p[k..]
crcUpdate(crc, p, k) ==
    IF k > Len(p) THEN crc
    ELSE crcUpdate(U32Xor(crcTab[U32Xor(U32Low(crc, 8), ByteBits(p[k]))], U32Shr(crc, 8)),
                   p, k + 1)

\* crc32.Checksum(p, crcTab)
Checksum(p) == (0..31) \ crcUpdate(0..31, p, 1)


\* ------------------------------------------------------------ word finder

bloomHashMinWordLength == 4

\* The bit of bloomWordTab for the byte x: initBloomWordTab sets it for '_',
\* 'a'..'z', 'A'..'Y' (the test is x < 'Z') and '0'..'9'.
isWordByte(x) ==
    /\ x < 128
    /\ \/ x = 95
       \/ 97 <= x /\ x <= 122
       \/ 65 <= x /\ x < 90
       \/ 48 <= x /\ x <= 57

isDigit(x) == 48 <= x /\ x <= 57

\* bytes.ToLower on ASCII input.
ToLower(s) == [k \in 1..Len(s) |-> IF 65 <= s[k] /\ s[k] <= 90 THEN s[k] + 32 ELSE s[k]]

RECURSIVE skipNonWord(_, _)
skipNonWord(i, in) ==
    IF i < Len(in) /\ ~isWordByte(in[i + 1]) THEN skipNonWord(i + 1, in) ELSE i

RECURSIVE skipWord(_, _)
skipWord(i, in) ==
    IF i < Len(in) /\ isWordByte(in[i + 1]) THEN skipWord(i + 1, in) ELSE i

RECURSIVE findNextWord(_, _)
\* <<the index after the word, the lowercased word>>; the word is <<>> (nil)
\* when no word of at least bloomHashMinWordLength bytes starts at or after i.
findNextWord(i, in) ==
    IF i >= Len(in) THEN <<i, <<>>>>
    ELSE LET wordStart == skipNonWord(i, in)
             e == skipWord(wordStart, in)
         IN  IF e - wordStart < bloomHashMinWordLength
             THEN findNextWord(e, in)
             ELSE <<e, ToLower(Slice(in, wordStart, e))>>

\* ----------------------------------------------------------------- hashers

RECURSIVE crcLengths(_, _, _)
\* The inner loop of bloomHasherCRC for one length l: the checksum of every
\* l-byte substring of s that does not start with a digit, from start i on.
crcLengths(s, l, i) ==
    IF i + l > Len(s) THEN <<>>
    ELSE (IF isDigit(s[i + 1]) THEN <<>> ELSE <<Checksum(Slice(s, i, i + l))>>)
         \o crcLengths(s, l, i + 1)

RECURSIVE crcWord(_, _)
\* The loop of bloomHasherCRC over the lengths l = 10 down to 4.
crcWord(s, l) ==
    IF l < 4 THEN <<>>
    ELSE (IF l > Len(s) THEN <<>> ELSE crcLengths(s, l, 0)) \o crcWord(s, l - 1)

RECURSIVE bloomHasherCRCFrom(_, _)
bloomHasherCRCFrom(i, in) ==
    IF i >= Len(in) THEN <<>>
    ELSE LET r == findNextWord(i, in)
         IN  crcWord(r[2], 10) \o bloomHasherCRCFrom(r[1], in)

bloomHasherCRC(in) == bloomHasherCRCFrom(0, in)

\* Probes with a base of crc * 1024, as some of the other hashers have it.
blockProbesBase1024(s, i, j) ==
    LET base == U32Shl(Checksum(Slice(s, i, i + 4)), 10)
        h == Checksum(Slice(s, i, j))
    IN  << base \cup U32Low(h, 9),
           base \cup U32Low(U32Shr(h, 9), 9),
           base \cup U32Low(U32Shr(h, 18), 9) >>

\* The three probes of the fragment s[i:j] in the block of s[i:i+4].
blockProbes(s, i, j) ==
    LET base == U32Shl(Checksum(Slice(s, i, i + 4)), 9)
        h == Checksum(Slice(s, i, j))
    IN  << base \cup U32Low(h, 9),
           base \cup U32Low(U32Shr(h, 9), 9),
           base \cup U32Low(U32Shr(h, 18), 9) >>

RECURSIVE blockFragments(_, _, _)
\* for j := i + 4; j < i+8 && j <= len(s); j++
blockFragments(s, i, j) ==
    IF j < i + 8 /\ j <= Len(s)
    THEN blockProbes(s, i, j) \o blockFragments(s, i, j + 1)
    ELSE <<>>

RECURSIVE blockWordKeepsDigits(_, _)
\* The loop over the starts without the test for a digit.
blockWordKeepsDigits(s, i) ==
    IF i > Len(s) - 4 THEN <<>>
    ELSE blockFragments(s, i, i + 4) \o blockWordKeepsDigits(s, i + 1)

RECURSIVE blockWord(_, _)
\* for i := 0; i <= len(s)-4; i++
blockWord(s, i) ==
    IF i > Len(s) - 4 THEN <<>>
    ELSE (IF isDigit(s[i + 1]) THEN <<>> ELSE blockFragments(s, i, i + 4))
         \o blockWord(s, i + 1)

RECURSIVE bloomHasherCRCBlocked64B8K3From(_, _)
bloomHasherCRCBlocked64B8K3From(i, in) ==
    IF i >= Len(in) THEN <<>>
    ELSE LET r == findNextWord(i, in)
         IN  blockWord(r[2], 0) \o bloomHasherCRCBlocked64B8K3From(r[1], in)

bloomHasherCRCBlocked64B8K3(in) == bloomHasherCRCBlocked64B8K3From(0, in)

\* A bloomHash is named by a string; "nil" is the zero value of the field.
bloomDefaultHash == "CRCBlocked64B8K3"

HasherNames == {"CRCBlocked64B8K3", "CRC"}

hash(h, in) ==
    CASE h = "CRCBlocked64B8K3" -> bloomHasherCRCBlocked64B8K3(in)
      [] h = "CRC" -> bloomHasherCRC(in)

\* A table of ids that gives every hasher the id 1.
bloomHasherIdsAllOne(h) == 1

\* bloomHasherIds[h]; a missing key of a Go map reads as the zero byte.
bloomHasherIds(h) == IF h = "CRCBlocked64B8K3" THEN 1 ELSE 0

bloomHashers == <<"CRCBlocked64B8K3">>

\* ------------------------------------------------------------------ bounds

\* bloomSizeBase is the least common multiple of 1..MaxLcmFactor. The source
\* takes 1..18 (12252240 bytes); the model takes a shorter range, which keeps
\* the property the code relies on: the size has many divisors.
MaxLcmFactor == 3

\* The number of operations of one run of the filter model.
MaxOps == 3

\* ------------------------------------------------------------ bloom filter

RECURSIVE Gcd(_, _)
Gcd(a, b) == IF b = 0 THEN a ELSE Gcd(b, a % b)

RECURSIVE LcmUpTo(_)
LcmUpTo(n) == IF n <= 1 THEN 1 ELSE LET l == LcmUpTo(n - 1) IN (l * n) \div Gcd(l, n)

\* Least common multiple of {1..MaxLcmFactor}.
bloomSizeBase == LcmUpTo(MaxLcmFactor)

\* make([]uint8, n)
makeBytes(n) == [i \in 1..n |-> {}]

\* The value of a bloom struct: its hasher and the contents of its bit array.
makeBloomFilterWithHasher(h) == [hasher |-> h, bits |-> makeBytes(bloomSizeBase)]

makeBloomFilterEmpty == makeBloomFilterWithHasher(bloomDefaultHash)

\* A probe x handed to add and maybeHas is kept as the pair <<x / 8, x % 8>>,
\* the two numbers the filter takes from it.
probeOf(x) == <<SumBits(U32Shr(x, 3)), SumBits(U32Low(x, 3))>>

probesOf(xs) == [k \in 1..Len(xs) |-> probeOf(xs[k])]

\* int(x/8) % len(bits), for a bit array of n bytes
probeIndex(x, n) == x[1] % n

\* x % 8
probeBit(x) == x[2]

RECURSIVE addFrom(_, _, _)
\* for _, x := range xs { bits[int(x/8)%len(bits)] |= 1 << (x % 8) }
addFrom(bits, xs, k) ==
    IF k > Len(xs) THEN bits
    ELSE addFrom([bits EXCEPT ![probeIndex(xs[k], Len(bits)) + 1] = @ \cup {probeBit(xs[k])}],
                 xs, k + 1)

\* A loop that starts at the second probe.
addSkipsFirst(bits, xs) == addFrom(bits, xs, 2)

add(bits, xs) == addFrom(bits, xs, 1)

\* A test that wants at least one probe.
maybeHasNeedsProbe(bits, xs) ==
    /\ Len(xs) > 0
    /\ \A k \in 1..Len(xs) : probeBit(xs[k]) \in bits[probeIndex(xs[k], Len(bits)) + 1]

\* The loop returns false at the first probe whose bit is clear.
maybeHas(bits, xs) ==
    \A k \in 1..Len(xs) : probeBit(xs[k]) \in bits[probeIndex(xs[k], Len(bits)) + 1]

RECURSIVE onesFrom(_, _)
\* total += bits.OnesCount8(x) over the bytes k..
onesFrom(bits, k) ==
    IF k > Len(bits) THEN 0 ELSE Cardinality(bits[k]) + onesFrom(bits, k + 1)

\* load() is the fraction loadOnes / loadTotal.
loadOnes(bits) == onesFrom(bits, 1)

loadTotal(bits) == Len(bits) * 8

\* ---- exact arithmetic for math.Log(1-target) / math.Log(1-load)
\* A natural number as its base-10000 digits, least significant first.
BigBase == 10000

RECURSIVE bigMulFrom(_, _, _, _)
bigMulFrom(a, m, k, carry) ==
    IF k > Len(a)
    THEN (IF carry = 0 THEN <<>> ELSE <<carry>>)
    ELSE LET v == a[k] * m + carry
         IN  <<v % BigBase>> \o bigMulFrom(a, m, k + 1, v \div BigBase)

\* a * m for a digit multiplier 0 <= m <= BigBase
bigMul(a, m) == bigMulFrom(a, m, 1, 0)

bigGeq(a, b) ==
    LET n == Max(Len(a), Len(b))
        da(i) == IF i <= Len(a) THEN a[i] ELSE 0
        db(i) == IF i <= Len(b) THEN b[i] ELSE 0
        diff == {i \in 1..n : da(i) # db(i)}
    IN  \/ diff = {}
        \/ LET t == CHOOSE i \in diff : \A j \in diff : j <= i IN da(t) > db(t)

RECURSIVE logQuotientFrom(_, _, _, _, _, _)
\* The largest k <= cap with keep^k * pa >= pb * all^k, given that it holds of k.
logQuotientFrom(k, cap, pa, pb, keep, all) ==
    IF k >= cap THEN k
    ELSE LET na == bigMul(pa, keep)
             nb == bigMul(pb, all)
         IN  IF bigGeq(na, nb)
             THEN logQuotientFrom(k + 1, cap, na, nb, keep, all)
             ELSE k

\* int(math.Log(1-target) / math.Log(1-load)) for a load ones/total > 0 and a
\* target num/den in (0,1), cut off at cap. The quotient of the logarithms is
\* the real k with (1-load)^k = 1-target, so its integer part is the largest
\* k with (total-ones)^k * den >= (den-num) * total^k.
logQuotient(ones, total, num, den, cap) ==
    logQuotientFrom(0, cap, <<den>>, <<den - num>>, total - ones, total)

\* The loop left out: the factor as the quotient gave it.
divisorAtMostNoLoop(n, factor) == factor

RECURSIVE divisorAtMost(_, _)
\* for factor > 0 && len(bits)%factor != 0 { factor-- }
divisorAtMost(n, factor) ==
    IF factor > 0 /\ n % factor # 0 THEN divisorAtMost(n, factor - 1) ELSE factor

\* The factor shrinkToSize settles on. Every quotient above len(bits) is
\* brought down to len(bits) by divisorAtMost, so it is computed cut off there.
shrinkFactor(bits, num, den) ==
    divisorAtMost(Len(bits),
                  IF loadOnes(bits) = 0
                  THEN Len(bits)
                  ELSE logQuotient(loadOnes(bits), loadTotal(bits), num, den, Len(bits)))

RECURSIVE orFoldAssign(_, _, _, _)
\* out.bits[j] = b.bits[i] in place of |=
orFoldAssign(in, out, i, j) ==
    IF i >= Len(in) THEN out
    ELSE orFoldAssign(in, [out EXCEPT ![j + 1] = in[i + 1]], i + 1,
                      IF j + 1 >= Len(out) THEN 0 ELSE j + 1)

RECURSIVE orFold(_, _, _, _)
\* for i := 0; i < len(b.bits); i++ { out.bits[j] |= b.bits[i]; j++; wrap j }
orFold(in, out, i, j) ==
    IF i >= Len(in) THEN out
    ELSE orFold(in, [out EXCEPT ![j + 1] = @ \cup in[i + 1]], i + 1,
                IF j + 1 >= Len(out) THEN 0 ELSE j + 1)

\* A range test that lets the two end points through.
shrinkToSizeOpenRange(b, num, den) ==
    IF num < 0 \/ num > den
    THEN [same |-> TRUE, hasher |-> b.hasher, bits |-> b.bits]
    ELSE LET factor == shrinkFactor(b.bits, num, den)
         IN  IF factor <= 1
             THEN [same |-> TRUE, hasher |-> b.hasher, bits |-> b.bits]
             ELSE [same |-> FALSE, hasher |-> b.hasher,
                   bits |-> orFold(b.bits, makeBytes(Len(b.bits) \div factor), 0, 0)]

\* An output array one byte longer than len(b.bits)/factor.
shrinkToSizeOneMore(b, num, den) ==
    IF num <= 0 \/ num >= den
    THEN [same |-> TRUE, hasher |-> b.hasher, bits |-> b.bits]
    ELSE LET factor == shrinkFactor(b.bits, num, den)
         IN  IF factor <= 1
             THEN [same |-> TRUE, hasher |-> b.hasher, bits |-> b.bits]
             ELSE [same |-> FALSE, hasher |-> b.hasher,
                   bits |-> orFold(b.bits, makeBytes((Len(b.bits) \div factor) + 1), 0, 0)]

\* shrinkToSize(target) on a filter value b, target = num/den: same is TRUE
\* when the code returns *b, the struct that shares the receiver's bit array.
shrinkToSize(b, num, den) ==
    IF num <= 0 \/ num >= den
    THEN [same |-> TRUE, hasher |-> b.hasher, bits |-> b.bits]
    ELSE LET factor == shrinkFactor(b.bits, num, den)
         IN  IF factor <= 1
             THEN [same |-> TRUE, hasher |-> b.hasher, bits |-> b.bits]
             ELSE [same |-> FALSE, hasher |-> b.hasher,
                   bits |-> orFold(b.bits, makeBytes(Len(b.bits) \div factor), 0, 0)]

\* The byte whose one-bits are bs.
byteOf(bs) == SumBits(bs)

\* GobEncode: version, hasher id, then the bit bytes.
GobEncode(b) == <<1, bloomHasherIds(b.hasher)>> \o [k \in 1..Len(b.bits) |-> byteOf(b.bits[k])]

\* A decoder that does not look at the version byte.
GobDecodeErrAnyVersion(buf) ==
    IF Len(buf) < 2
    THEN "invalid bloom filter encoding (wrong size/version)"
    ELSE IF buf[2] <= 0 \/ buf[2] > Len(bloomHashers)
         THEN "invalid bloom filter encoding (unknown hasher type)"
         ELSE "nil"

\* The error GobDecode returns for buf, "nil" for none.
GobDecodeErr(buf) ==
    IF Len(buf) < 2 \/ buf[1] # 1
    THEN "invalid bloom filter encoding (wrong size/version)"
    ELSE IF buf[2] <= 0 \/ buf[2] > Len(bloomHashers)
         THEN "invalid bloom filter encoding (unknown hasher type)"
         ELSE "nil"

\* copy(b.bits, buf[1:])
GobDecodeFromHasherByte(buf) ==
    [hasher |-> bloomHashers[buf[2]],
     bits |-> [k \in 1..(Len(buf) - 2) |-> ByteBits(buf[k + 1])]]

\* The filter value GobDecode stores into its receiver when it returns nil.
GobDecode(buf) ==
    [hasher |-> bloomHashers[buf[2]],
     bits |-> [k \in 1..(Len(buf) - 2) |-> ByteBits(buf[k + 2])]]

\* ------------------------------------------------------- the filter model

VARIABLES
    filt,    \* the bloom variables b and bi: [hasher, bits], bits a reference
    mem,     \* the bit arrays ([]uint8) by reference
    keys,    \* by reference: the inputs added to the array or to its sources
    origin,  \* by reference: where the array comes from: "make", "shrink" (of
             \* a made array, by any number of shrinks), "decode" (GobDecode, or
             \* a shrink of a decoded array)
    buf,     \* a byte buffer: the output of GobEncode, or bytes read from a shard
    bufSrc,  \* the filter value buf encodes, when GobEncode wrote buf
    last,    \* the operation that led to this state
    nops,    \* the number of operations so far
    offsets, \* toDeltas: the posting list handed to it
    deltas,  \* toDeltas: the bytes it returned
    decoded, \* the posting list a reader decodes from deltas
    dpc,     \* where the posting list is: "idle", "start", "encoded", "decoded"
    builder, \* convert: the index builder that writes the source shard
    srcIF,   \* convert: the source shard, the stream that builder wrote
    srcD,    \* convert: the index data parsed from srcIF
    b2,      \* convert: the builder that convert made of srcD
    buf2,    \* convert: the stream that b2 wrote
    Version, \* the version of the program, recorded in a shard's metadata
    cpc,     \* where the conversion is: "idle", "build", "written", "parsed",
             \* "converted", "rewritten"
    shards,  \* the sharded searcher's shards: by key, the kind of searcher
    call,    \* the aggregate Search or List in progress and its options
    task,    \* by key: the shard search of the call
    aggregate, \* what the call has merged so far
    pending, \* the priority slice: the ranks of the shards dispatched and not
             \* yet merged
    prio,    \* a prioritySlice on its own: its priorities
    prioLive, \* by value: how often it was appended to prio and not yet removed
    prioLast, \* the last operation on prio and its value
    tcall,   \* the last call of a typeRepoSearcher: its arguments, what the
             \* underlying searcher was asked, and what the call returned
    fb       \* an IndexBuilder of package codesearch, fed by AddFile

bloomVars == <<filt, mem, keys, origin, buf, bufSrc, last, nops>>

deltaVars == <<offsets, deltas, decoded, dpc>>

convertVars == <<builder, srcIF, srcD, b2, buf2, Version, cpc>>

shardVars == <<shards, call, task, aggregate, pending>>

prioVars == <<prio, prioLive, prioLast>>

typeRepoVars == <<tcall>>

fileVars == <<fb>>

vars == <<bloomVars, deltaVars, convertVars, shardVars, prioVars, typeRepoVars, fileVars>>

\* What the filter model leaves alone.
notBloomVars == <<deltaVars, convertVars, shardVars, prioVars, typeRepoVars, fileVars>>

\* What the posting-list model leaves alone.
notDeltaVars == <<bloomVars, convertVars, shardVars, prioVars, typeRepoVars, fileVars>>

\* What the conversion model leaves alone.
notConvertVars == <<bloomVars, deltaVars, shardVars, prioVars, typeRepoVars, fileVars>>

\* What the sharded searcher leaves alone.
notShardVars == <<bloomVars, deltaVars, convertVars, prioVars, typeRepoVars, fileVars>>

\* What the priority slice on its own leaves alone.
notPrioVars == <<bloomVars, deltaVars, convertVars, shardVars, typeRepoVars, fileVars>>

\* What the type-repo rewriter leaves alone.
notTypeRepoVars == <<bloomVars, deltaVars, convertVars, shardVars, prioVars, fileVars>>

\* What the file builder leaves alone.
notFileVars == <<bloomVars, deltaVars, convertVars, shardVars, prioVars, typeRepoVars>>

\* No posting list is being encoded.
deltaIdle ==
    /\ offsets = <<>>
    /\ deltas = <<>>
    /\ decoded = <<>>
    /\ dpc = "idle"

FilterVars == {"b", "bi"}

\* One array per variable and one being built.
Refs == 1..3

\* The zero value of a bloom struct: a nil hasher and a nil slice (reference 0).
NilFilter == [hasher |-> "nil", bits |-> 0]

\* The inputs of addBytes:
\*   "some", "test words", "Quiz_42x", "SIZE ab", "somehow", "testing",
\*   "ab12cdef"
Inputs ==
    { <<115, 111, 109, 101>>,
      <<116, 101, 115, 116, 32, 119, 111, 114, 100, 115>>,
      <<81, 117, 105, 122, 95, 52, 50, 120>>,
      <<83, 73, 90, 69, 32, 97, 98>>,
      <<115, 111, 109, 101, 104, 111, 119>>,
      <<116, 101, 115, 116, 105, 110, 103>>,
      <<97, 98, 49, 50, 99, 100, 101, 102>> }

\* Inputs that are only asked for, never added:
\*   "", "ab cd", "2024", "12ab 9xyz", "a-b-c-d-e"
ControlInputs ==
    { <<>>,
      <<97, 98, 32, 99, 100>>,
      <<50, 48, 50, 52>>,
      <<49, 50, 97, 98, 32, 57, 120, 121, 122>>,
      <<97, 45, 98, 45, 99, 45, 100, 45, 101>> }

\* The targets of shrinkToSize, as numerators over TargetDen:
\* 0 and 1 (out of range), 0.1, 0.42 (bloomDefaultLoad) and 0.85.
TargetDen == 10000

Targets == {0, 1000, 4200, 8500, 10000}

\* Buffers GobDecode may be handed besides the output of GobEncode.
TestBufs ==
    { <<>>, <<1>>, <<1, 1>>, <<2, 1, 7>>, <<1, 0, 7>>, <<1, 2, 7>>,
      <<1, 1, 129, 3>> }

\* The bytes [A-Za-z0-9_].
isAsciiWordByte(x) ==
    \/ x = 95
    \/ 97 <= x /\ x <= 122
    \/ 65 <= x /\ x <= 90
    \/ 48 <= x /\ x <= 57

\* The substrings of d of 4 to 7 bytes, all of them bytes of [A-Za-z0-9_].
WordFragments(d) ==
    { Slice(d, i, i + l) : <<i, l>> \in
        { p \in (0..Len(d)) \X (4..7) :
            /\ p[1] + p[2] <= Len(d)
            /\ \A k \in (p[1] + 1)..(p[1] + p[2]) : isAsciiWordByte(d[k]) } }

\* The byte strings the model hashes: the inputs, their fragments, and the
\* control inputs.
Words == Inputs \cup ControlInputs \cup UNION {WordFragments(d) : d \in Inputs}

\* b.hasher(w) for every hasher and word of the model, as <<x / 8, x % 8>> pairs.
HashTab == [h \in HasherNames |-> [w \in Words |-> probesOf(hash(h, w))]]

\* b.maybeHasBytes(w), for a filter value b with a hasher and bits
maybeHasBytes(b, w) == maybeHas(b.bits, HashTab[b.hasher][w])

\* The contents of the array a filter refers to.
bitsOf(m, f) == IF f.bits = 0 THEN <<>> ELSE m[f.bits]

\* The value of the filter variable v: its hasher and the contents of its bits.
valueOf(v) == [hasher |-> filt[v].hasher, bits |-> bitsOf(mem, filt[v])]

\* A reference no variable other than dst holds.
freshRef(dst) == CHOOSE r \in Refs : \A v \in FilterVars \ {dst} : filt[v].bits # r

\* Arrays no variable refers to any more are collected.
collect(f, m) == [r \in Refs |-> IF \E v \in FilterVars : f[v].bits = r THEN m[r] ELSE <<>>]

collectKeys(f, k) == [r \in Refs |-> IF \E v \in FilterVars : f[v].bits = r THEN k[r] ELSE {}]

collectOrigin(f, o) ==
    [r \in Refs |-> IF \E v \in FilterVars : f[v].bits = r THEN o[r] ELSE "none"]

NoOp == [op |-> "none", v |-> "b", dst |-> "b", target |-> 0, data |-> <<>>,
         pre |-> [hasher |-> "nil", bits |-> <<>>], err |-> "nil", panic |-> FALSE]

NoSrc == [set |-> FALSE, hasher |-> "nil", bits |-> <<>>, keys |-> {}]

\* b := makeBloomFilterEmpty(); var bi bloom
bloomIdle ==
    /\ filt = [v \in FilterVars |-> IF v = "b" THEN [hasher |-> bloomDefaultHash, bits |-> 1]
                                               ELSE NilFilter]
    /\ mem = [r \in Refs |-> IF r = 1 THEN makeBloomFilterEmpty.bits ELSE <<>>]
    /\ keys = [r \in Refs |-> {}]
    /\ origin = [r \in Refs |-> IF r = 1 THEN "make" ELSE "none"]
    /\ buf = <<>>
    /\ bufSrc = NoSrc
    /\ last = NoOp
    /\ nops = 0

\* filt[dst] becomes a filter with a newly made array of contents bits.
assign(dst, h, bits, ks, how) ==
    LET r == freshRef(dst)
        f == [filt EXCEPT ![dst] = [hasher |-> h, bits |-> r]]
    IN  /\ filt' = f
        /\ mem' = collect(f, [mem EXCEPT ![r] = bits])
        /\ keys' = collectKeys(f, [keys EXCEPT ![r] = ks])
        /\ origin' = collectOrigin(f, [origin EXCEPT ![r] = how])

\* b = makeBloomFilterWithHasher(h)
Make(h) ==
    /\ nops < MaxOps
    /\ assign("b", h, makeBloomFilterWithHasher(h).bits, {}, "make")
    /\ last' = [NoOp EXCEPT !.op = "make", !.pre = valueOf("b")]
    /\ nops' = nops + 1
    /\ UNCHANGED <<buf, bufSrc>>
    /\ UNCHANGED notBloomVars

\* v.addBytes(d). With no bits the index expression divides by zero and the
\* call panics; the filter is as before.
AddBytes(v, d) ==
    /\ nops < MaxOps
    /\ filt[v].hasher # "nil"
    /\ LET xs == HashTab[filt[v].hasher][d]
           r == filt[v].bits
       IN  IF xs # <<>> /\ Len(mem[r]) = 0
           THEN /\ last' = [NoOp EXCEPT !.op = "addBytes", !.v = v, !.data = d,
                                        !.pre = valueOf(v), !.panic = TRUE]
                /\ UNCHANGED <<mem, keys>>
           ELSE /\ last' = [NoOp EXCEPT !.op = "addBytes", !.v = v, !.data = d,
                                        !.pre = valueOf(v)]
                /\ mem' = [mem EXCEPT ![r] = add(@, xs)]
                /\ keys' = [keys EXCEPT ![r] = @ \cup {d}]
    /\ nops' = nops + 1
    /\ UNCHANGED <<filt, origin, buf, bufSrc>>
    /\ UNCHANGED notBloomVars

\* dst = b.shrinkToSize(t/TargetDen), for a receiver with bits
ShrinkToSize(dst, t) ==
    LET v == "b" IN
    /\ nops < MaxOps
    /\ filt[v].hasher # "nil"
    /\ Len(bitsOf(mem, filt[v])) > 0
    /\ LET out == shrinkToSize(valueOf(v), t, TargetDen)
       IN  IF out.same
           THEN LET f == [filt EXCEPT ![dst] = filt[v]]
                IN  /\ filt' = f
                    /\ mem' = collect(f, mem)
                    /\ keys' = collectKeys(f, keys)
                    /\ origin' = collectOrigin(f, origin)
           ELSE assign(dst, out.hasher, out.bits, keys[filt[v].bits],
                       IF origin[filt[v].bits] = "decode" THEN "decode" ELSE "shrink")
    /\ last' = [NoOp EXCEPT !.op = "shrinkToSize", !.v = v, !.dst = dst, !.target = t,
                            !.pre = valueOf(v)]
    /\ nops' = nops + 1
    /\ UNCHANGED <<buf, bufSrc>>
    /\ UNCHANGED notBloomVars

\* buf, _ = v.GobEncode()
Encode(v) ==
    /\ nops < MaxOps
    /\ buf' = GobEncode(valueOf(v))
    /\ bufSrc' = [set |-> TRUE, hasher |-> filt[v].hasher, bits |-> bitsOf(mem, filt[v]),
                  keys |-> IF filt[v].bits = 0 THEN {} ELSE keys[filt[v].bits]]
    /\ last' = [NoOp EXCEPT !.op = "GobEncode", !.v = v, !.pre = valueOf(v)]
    /\ nops' = nops + 1
    /\ UNCHANGED <<filt, mem, keys, origin>>
    /\ UNCHANGED notBloomVars

\* buf is read from a file instead
ReadBuf(x) ==
    /\ nops < MaxOps
    /\ buf' = x
    /\ bufSrc' = NoSrc
    /\ last' = [NoOp EXCEPT !.op = "read"]
    /\ nops' = nops + 1
    /\ UNCHANGED <<filt, mem, keys, origin>>
    /\ UNCHANGED notBloomVars

\* err = v.GobDecode(buf)
Decode(v) ==
    /\ nops < MaxOps
    /\ LET err == GobDecodeErr(buf)
       IN  /\ last' = [NoOp EXCEPT !.op = "GobDecode", !.v = v, !.pre = valueOf(v), !.err = err]
           /\ IF err = "nil"
              THEN assign(v, GobDecode(buf).hasher, GobDecode(buf).bits, bufSrc.keys, "decode")
              ELSE UNCHANGED <<filt, mem, keys, origin>>
    /\ nops' = nops + 1
    /\ UNCHANGED <<buf, bufSrc>>
    /\ UNCHANGED notBloomVars

\* ------------------------------------------------- claims: the bloom filter

\* The filter the last operation stored into or acted on.
postOf(v) == valueOf(v)

hasBit(bits) == \E k \in 1..Len(bits) : bits[k] # {}

\* Every probe list of the model, and every probe alone.
ProbeLists ==
    LET lists == {HashTab[h][w] : h \in HasherNames, w \in Words}
    IN  lists \cup UNION {{<<xs[k]>> : k \in 1..Len(xs)} : xs \in lists}

shrankInRange ==
    /\ last.op = "shrinkToSize"
    /\ 0 < last.target
    /\ last.target < TargetDen

\* C1: on a filter made by makeBloomFilterEmpty and only added to, every
\* fragment of 4 to 7 word bytes that occurs in an added input is reported
\* present by maybeHasBytes.
C1_NoFalseNegative ==
    \A v \in FilterVars :
        (filt[v].bits # 0 /\ origin[filt[v].bits] = "make" /\ filt[v].hasher = bloomDefaultHash)
        => \A d \in keys[filt[v].bits] :
               \A w \in WordFragments(d) : maybeHasBytes(valueOf(v), w)

C1_Witness ==
    /\ last.op = "addBytes"
    /\ origin[filt["b"].bits] = "make"
    /\ filt["b"].hasher = bloomDefaultHash
    /\ \E d \in keys[filt["b"].bits] :
           \E w \in WordFragments(d) :
               /\ HashTab[bloomDefaultHash][w] # <<>>
               /\ maybeHasBytes(valueOf("b"), w)
               /\ ~maybeHasBytes(makeBloomFilterEmpty, w)

\* C2: after dst = b.shrinkToSize(y) with 0 < y < 1, every probe list b
\* answered true for is answered true for by the result, and every input
\* added before the shrink is still reported present.
C2_ShrinkKeepsMembers ==
    shrankInRange =>
        /\ \A xs \in ProbeLists :
               maybeHas(last.pre.bits, xs) => maybeHas(valueOf(last.dst).bits, xs)
        /\ \A d \in keys[filt[last.dst].bits] : maybeHasBytes(valueOf(last.dst), d)

C2_Witness ==
    /\ shrankInRange
    /\ Len(valueOf(last.dst).bits) < Len(last.pre.bits)
    /\ \E d \in keys[filt[last.dst].bits] : HashTab[last.pre.hasher][d] # <<>>
    /\ \E w \in Words : ~maybeHasBytes(valueOf(last.dst), w)

\* C3 as stated: the load of b.shrinkToSize(y) is at most the load of b.
C3_LoadNotGreater ==
    shrankInRange =>
        loadOnes(valueOf(last.dst).bits) * loadTotal(last.pre.bits)
            <= loadOnes(last.pre.bits) * loadTotal(valueOf(last.dst).bits)

\* C3 amended: for 0 < y < 1 the load of b.shrinkToSize(y) is at least the
\* load of b.
C3_LoadNotSmaller ==
    shrankInRange =>
        loadOnes(valueOf(last.dst).bits) * loadTotal(last.pre.bits)
            >= loadOnes(last.pre.bits) * loadTotal(valueOf(last.dst).bits)

C3_Witness ==
    /\ shrankInRange
    /\ loadOnes(last.pre.bits) > 0
    /\ Len(valueOf(last.dst).bits) < Len(last.pre.bits)
    /\ loadOnes(valueOf(last.dst).bits) * loadTotal(last.pre.bits)
           > loadOnes(last.pre.bits) * loadTotal(valueOf(last.dst).bits)

\* C7: GobEncode of a filter with the default hasher writes the version byte
\* 1, the hasher id 1 and then the bit bytes, and GobDecode of that output
\* succeeds and gives a filter with the same hasher and the same bits, which
\* answers every query as the encoded filter does.
C7_GobRoundTrip ==
    /\ (bufSrc.set /\ bufSrc.hasher = bloomDefaultHash) =>
           /\ Len(buf) = Len(bufSrc.bits) + 2
           /\ buf[1] = 1
           /\ buf[2] = 1
           /\ \A k \in 1..Len(bufSrc.bits) :
                  \A i \in 0..7 : (i \in bufSrc.bits[k]) <=> ((buf[k + 2] \div Pow2(i)) % 2 = 1)
    /\ (last.op = "GobDecode" /\ bufSrc.set /\ bufSrc.hasher = bloomDefaultHash) =>
           /\ last.err = "nil"
           /\ valueOf(last.v) = [hasher |-> bufSrc.hasher, bits |-> bufSrc.bits]
           /\ Len(bufSrc.bits) > 0 =>
                  \A w \in Words :
                      maybeHasBytes(valueOf(last.v), w)
                          <=> maybeHas(bufSrc.bits, HashTab[bufSrc.hasher][w])

C7_Witness ==
    /\ last.op = "GobDecode"
    /\ bufSrc.set
    /\ bufSrc.hasher = bloomDefaultHash
    /\ hasBit(bufSrc.bits)
    /\ last.err = "nil"
    /\ hasBit(valueOf(last.v).bits)

\* The buffers C8 names: shorter than 2 bytes, a version byte other than 1,
\* or a hasher-id byte that is 0 or above the number of registered hashers.
badEncoding(x) ==
    IF Len(x) < 2 THEN TRUE
    ELSE x[1] # 1 \/ x[2] = 0 \/ x[2] > Len(bloomHashers)

\* C8: GobDecode of such a buffer returns an error and leaves the receiver's
\* hasher and bits as they were.
C8_DecodeRejects ==
    (last.op = "GobDecode" /\ badEncoding(buf)) =>
        /\ last.err # "nil"
        /\ valueOf(last.v) = last.pre

C8_Witness ==
    /\ last.op = "GobDecode"
    /\ badEncoding(buf)
    /\ Len(buf) >= 2
    /\ last.err # "nil"
    /\ hasBit(last.pre.bits)

\* C9: shrinkToSize with a target <= 0 or >= 1 returns a filter of the same
\* length, bits and hasher as the receiver.
C9_OutOfRangeUnchanged ==
    (last.op = "shrinkToSize" /\ (last.target <= 0 \/ last.target >= TargetDen)) =>
        /\ Len(valueOf(last.dst).bits) = Len(last.pre.bits)
        /\ valueOf(last.dst).bits = last.pre.bits
        /\ valueOf(last.dst).hasher = last.pre.hasher

C9_Witness ==
    /\ last.op = "shrinkToSize"
    /\ last.target >= TargetDen
    /\ last.dst = "bi"
    /\ hasBit(last.pre.bits)
    /\ valueOf("bi") = last.pre

\* The input with the case of every ASCII letter changed.
swapCase(d) ==
    [k \in 1..Len(d) |->
        IF 65 <= d[k] /\ d[k] <= 90 THEN d[k] + 32
        ELSE IF 97 <= d[k] /\ d[k] <= 122 THEN d[k] - 32
        ELSE d[k]]

\* The input followed by " a b cd".
withShortTokens(d) == d \o <<32, 97, 32, 98, 32, 99, 100>>

\* C10: the probes the default hasher emits for an input are those it emits
\* for the input with the case of its letters changed, and for the input
\* with tokens of fewer than 4 word bytes appended.
C10_HasherIgnoresCaseAndShortTokens ==
    last.op = "addBytes" =>
        /\ hash(bloomDefaultHash, swapCase(last.data)) = hash(bloomDefaultHash, last.data)
        /\ hash(bloomDefaultHash, ToLower(last.data)) = hash(bloomDefaultHash, last.data)
        /\ hash(bloomDefaultHash, withShortTokens(last.data)) = hash(bloomDefaultHash, last.data)

RECURSIVE wordsFrom(_, _)
\* The words a hasher's loop takes from in, from index i on:
\*   for i := 0; i < len(in); { i, s = findNextWord(i, in); ... }
\* A nil s adds nothing to the output and is left out.
wordsFrom(i, in) ==
    IF i >= Len(in) THEN <<>>
    ELSE LET r == findNextWord(i, in)
         IN  (IF r[2] = <<>> THEN <<>> ELSE <<r[2]>>) \o wordsFrom(r[1], in)

\* The maximal runs of bytes of [A-Za-z0-9_] in d of at least 4 bytes, as
\* pairs <<s, e>> of the index of the first byte and the index after the last.
asciiRuns(d) ==
    { p \in (0..Len(d)) \X (0..Len(d)) :
        /\ p[2] - p[1] >= bloomHashMinWordLength
        /\ \A k \in (p[1] + 1)..p[2] : isAsciiWordByte(d[k])
        /\ p[1] = 0 \/ ~isAsciiWordByte(d[p[1]])
        /\ p[2] = Len(d) \/ ~isAsciiWordByte(d[p[2] + 1]) }

RECURSIVE asciiWordsFrom(_, _)
\* The lowercased copies of the runs that start at or after i, in order.
asciiWordsFrom(i, d) ==
    LET rest == {p \in asciiRuns(d) : p[1] >= i}
    IN  IF rest = {} THEN <<>>
        ELSE LET p == CHOOSE q \in rest : \A o \in rest : q[1] <= o[1]
             IN  <<ToLower(Slice(d, p[1], p[2]))>> \o asciiWordsFrom(p[2], d)

\* The same runs, of the bytes the table of the code accepts.
tableRuns(d) ==
    { p \in (0..Len(d)) \X (0..Len(d)) :
        /\ p[2] - p[1] >= bloomHashMinWordLength
        /\ \A k \in (p[1] + 1)..p[2] : isWordByte(d[k])
        /\ p[1] = 0 \/ ~isWordByte(d[p[1]])
        /\ p[2] = Len(d) \/ ~isWordByte(d[p[2] + 1]) }

\* C11: the word predicate accepts a byte if and only if it is one of
\* A-Z, a-z, 0-9 and underscore, and the words the hasher takes from an input
\* are the maximal runs of such bytes of at least 4 bytes, lowercased.
C11_WordsAreAsciiRuns ==
    last.op = "addBytes" =>
        /\ \A k \in 1..Len(last.data) :
               isWordByte(last.data[k]) <=> isAsciiWordByte(last.data[k])
        /\ wordsFrom(0, last.data) = asciiWordsFrom(0, last.data)

\* What holds of the code: the words are the lowercased maximal runs, of at
\* least 4 bytes, of the bytes its table accepts.
WordsAreTableRuns ==
    last.op = "addBytes" =>
        /\ Len(wordsFrom(0, last.data)) = Cardinality(tableRuns(last.data))
        /\ \A p \in tableRuns(last.data) :
               \E k \in 1..Len(wordsFrom(0, last.data)) :
                   wordsFrom(0, last.data)[k] = ToLower(Slice(last.data, p[1], p[2]))

\* The filters that come from makeBloomFilterEmpty or makeBloomFilterWithHasher
\* by addBytes and shrinkToSize alone.
madeOrShrunk(v) == filt[v].bits # 0 /\ origin[filt[v].bits] \in {"make", "shrink"}

\* C18: a filter reached from a made filter by addBytes and shrinkToSize has
\* a byte length of at least 1 that divides bloomSizeBase, and add leaves the
\* length as it was.
C18_SizeDividesBase ==
    /\ \A v \in FilterVars :
           madeOrShrunk(v) =>
               /\ Len(valueOf(v).bits) >= 1
               /\ bloomSizeBase % Len(valueOf(v).bits) = 0
    /\ (last.op = "addBytes" /\ ~last.panic) =>
           Len(valueOf(last.v).bits) = Len(last.pre.bits)

C18_Witness ==
    /\ last.op = "addBytes"
    /\ madeOrShrunk(last.v)
    /\ origin[filt[last.v].bits] = "shrink"
    /\ 1 < Len(valueOf(last.v).bits)
    /\ Len(valueOf(last.v).bits) < bloomSizeBase
    /\ valueOf(last.v).bits # last.pre.bits

\* The desired factor of C19 for the filter bits and the target num/den: the
\* integer part of log(1-y)/log(1-x), or the length when no bit is set.
desiredFactor(bits, num, den) ==
    IF loadOnes(bits) = 0
    THEN Len(bits)
    ELSE logQuotient(loadOnes(bits), loadTotal(bits), num, den, Len(bits))

\* The largest k <= k0 that divides n, 0 when there is none.
largestDivisorAtMost(n, k0) ==
    LET ds == {k \in 1..n : k <= k0 /\ n % k = 0}
    IN  IF ds = {} THEN 0 ELSE CHOOSE k \in ds : \A o \in ds : o <= k

\* C19: shrinkToSize uses the largest k <= k0 with L mod k = 0; with k <= 1
\* the filter is returned unchanged, otherwise the result has L/k bytes. An
\* empty filter shrinks to 1 byte for every target in range.
C19_ShrinkFactor ==
    shrankInRange =>
        LET L == Len(last.pre.bits)
            k == largestDivisorAtMost(L, desiredFactor(last.pre.bits, last.target, TargetDen))
        IN  /\ k <= 1 => valueOf(last.dst) = last.pre
            /\ k > 1 => Len(valueOf(last.dst).bits) * k = L
            /\ loadOnes(last.pre.bits) = 0 => Len(valueOf(last.dst).bits) = 1

\* The quotient is no divisor of the length and the loop brings it down.
C19_Witness ==
    /\ shrankInRange
    /\ loadOnes(last.pre.bits) > 0
    /\ LET L == Len(last.pre.bits)
           k0 == desiredFactor(last.pre.bits, last.target, TargetDen)
       IN  /\ k0 > 0
           /\ L % k0 # 0
           /\ largestDivisorAtMost(L, k0) > 1
           /\ Len(valueOf(last.dst).bits) * largestDivisorAtMost(L, k0) = L

\* The last operation was a shrinkToSize that made a shorter filter.
shrankShorter == shrankInRange /\ Len(valueOf(last.dst).bits) < Len(last.pre.bits)

\* C20: output byte j of a shrink is the OR of exactly the input bytes at the
\* indexes i with i mod len(out) = j, an output bit is set if and only if one
\* of the input bits it stands for is set, and the bits of the receiver are
\* as they were.
C20_ExactOrFold ==
    shrankShorter =>
        LET in == last.pre.bits
            out == valueOf(last.dst).bits
        IN  /\ \A j \in 0..(Len(out) - 1) :
                   out[j + 1] = UNION {in[i + 1] : i \in {x \in 0..(Len(in) - 1) :
                                                            x % Len(out) = j}}
            /\ \A j \in 0..(Len(out) - 1) : \A bit \in 0..7 :
                   bit \in out[j + 1] <=>
                       \E i \in 0..(Len(in) - 1) : i % Len(out) = j /\ bit \in in[i + 1]
            /\ last.dst # last.v => valueOf(last.v).bits = in

\* A fold of several bytes with different bits into one output byte.
C20_Witness ==
    /\ shrankShorter
    /\ last.dst # last.v
    /\ 1 < Len(valueOf(last.dst).bits)
    /\ \E i, k \in 1..Len(last.pre.bits) :
           /\ i < k
           /\ (i - 1) % Len(valueOf(last.dst).bits) = (k - 1) % Len(valueOf(last.dst).bits)
           /\ last.pre.bits[i] # {}
           /\ last.pre.bits[k] # {}
           /\ last.pre.bits[i] # last.pre.bits[k]

\* The pairs <<i, l>> of a start and a length that C21 names for the word s.
fragmentPairs(s) ==
    { p \in (0..Len(s)) \X (4..7) :
        /\ p[1] + p[2] <= Len(s)
        /\ ~isDigit(s[p[1] + 1]) }

pairLess(p, q) == p[1] < q[1] \/ (p[1] = q[1] /\ p[2] < q[2])

RECURSIVE pairsInOrder(_)
\* The pairs by their start and then by their length.
pairsInOrder(P) ==
    IF P = {} THEN <<>>
    ELSE LET m == CHOOSE p \in P : \A q \in P \ {p} : pairLess(p, q)
         IN  <<m>> \o pairsInOrder(P \ {m})

RECURSIVE fragmentsOfWords(_, _)
\* The fragments <<s, i, l>> of the words ws[k..], word after word.
fragmentsOfWords(ws, k) ==
    IF k > Len(ws) THEN <<>>
    ELSE LET ps == pairsInOrder(fragmentPairs(ws[k]))
         IN  [n \in 1..Len(ps) |-> <<ws[k], ps[n][1], ps[n][2]>>]
             \o fragmentsOfWords(ws, k + 1)

\* The fragments of the words the hasher takes from the input d.
fragmentsOf(d) == fragmentsOfWords(wordsFrom(0, d), 1)

\* The last operation hashed its input with the default hasher.
hashedByDefault == last.op = "addBytes" /\ last.pre.hasher = bloomDefaultHash

\* "testing"
Testing == <<116, 101, 115, 116, 105, 110, 103>>

\* C21: for each lowercased word s of the input the default hasher emits
\* exactly 3 probes for every pair (i, l) with 4 <= l <= 7, i + l <= len(s)
\* and s[i] not a digit, in the order of the pairs, and no other probe; for
\* "testing" these are 30 probes.
C21_ProbeEnumeration ==
    hashedByDefault =>
        LET out == HashTab[bloomDefaultHash][last.data]
            fr == fragmentsOf(last.data)
        IN  /\ Len(out) = 3 * Len(fr)
            /\ \A n \in 1..Len(fr) :
                   SubSeq(out, 3 * n - 2, 3 * n)
                       = probesOf(blockProbes(fr[n][1], fr[n][2], fr[n][2] + fr[n][3]))
            /\ last.data = Testing => Len(out) = 30

\* A word with digits in it was hashed: no probe for the starts at a digit,
\* probes for the starts on both sides of them.
C21_Witness ==
    /\ hashedByDefault
    /\ LET ws == wordsFrom(0, last.data)
       IN  /\ Len(ws) = 1
           /\ \E i \in 1..(Len(ws[1]) - 4) :
                  /\ isDigit(ws[1][i + 1])
                  /\ ~isDigit(ws[1][i])
                  /\ \E k \in (i + 1)..(Len(ws[1]) - 4) : ~isDigit(ws[1][k + 1])
           /\ Len(HashTab[bloomDefaultHash][last.data]) = 3 * Cardinality(fragmentPairs(ws[1]))
           /\ Cardinality(fragmentPairs(ws[1])) = 9

\* C22: every probe x of a fragment s[i..i+l] is base + r with
\* base = (crc32c(s[i..i+4]) * 512) mod 2^32, a multiple of 512, and
\* 0 <= r < 512: x / 512 is the checksum of the prefix mod 2^23, and x mod 512
\* is h mod 512, (h >> 9) mod 512 and (h >> 18) mod 512 of the fragment's
\* checksum h, for the first, second and third probe.
C22_BlockConfinement ==
    hashedByDefault =>
        LET out == HashTab[bloomDefaultHash][last.data]
            fr == fragmentsOf(last.data)
        IN  /\ Len(out) = 3 * Len(fr)
            /\ \A n \in 1..Len(fr) :
                   LET s == fr[n][1]
                       i == fr[n][2]
                       l == fr[n][3]
                       block == SumBits(U32Low(Checksum(Slice(s, i, i + 4)), 23))
                       h == Checksum(Slice(s, i, i + l))
                   IN  \A c \in 1..3 :
                           LET x == out[3 * (n - 1) + c]
                           IN  /\ x[1] \div 64 = block
                               /\ (x[1] % 64) * 8 + x[2]
                                      = SumBits(U32Low(U32Shr(h, 9 * (c - 1)), 9))

\* Fragments of 4 and of 7 bytes from the same start were hashed: their
\* probes are in one block, at different places in it, and a fragment from
\* another start has another block.
C22_Witness ==
    /\ hashedByDefault
    /\ last.data = Testing
    /\ LET out == HashTab[bloomDefaultHash][last.data]
       IN  /\ Len(out) = 30
           /\ \A k \in 1..12 : out[k][1] \div 64 = out[1][1] \div 64
           /\ out[13][1] \div 64 # out[1][1] \div 64
           /\ \E k \in 2..12 : out[k] # out[1]
           /\ out[1][1] \div 64 > 0

\* bi holds what the last operation, a shrinkToSize of b, returned, and the
\* step adds bytes to b.
addsAfterShrink ==
    /\ last.op = "shrinkToSize"
    /\ last.dst = "bi"
    /\ last'.op = "addBytes"
    /\ last'.v = "b"
    /\ ~last'.panic

\* The step leaves every answer of bi as it was.
answersOfBiStay ==
    \A w \in Words :
        maybeHasBytes(valueOf("bi"), w) = maybeHasBytes(valueOf("bi"), w)'

\* C27: bits added to the receiver after shrinkToSize never change the
\* answers of the filter it returned, whether the call shrank the filter or
\* returned it unchanged.
C27_ShrunkIsIndependent == [][addsAfterShrink => answersOfBiStay]_vars

\* What holds: a filter that shrinkToSize made smaller keeps its answers when
\* bytes are added to the receiver.
SmallerIsIndependent ==
    [][(addsAfterShrink /\ Len(valueOf("bi").bits) < Len(last.pre.bits))
           => answersOfBiStay]_vars

\* The filter variables that hold a filter GobDecode accepted.
decodedVars == {v \in FilterVars : filt[v].bits # 0 /\ origin[filt[v].bits] = "decode"}

\* C28: every filter GobDecode accepts has at least one byte of bits, so an
\* add or maybeHas with a non-empty probe list on it never divides by the
\* length of an empty bit array.
C28_DecodedIsSafe ==
    /\ \A v \in decodedVars : Len(valueOf(v).bits) >= 1
    /\ (last.op = "addBytes" /\ last.v \in decodedVars) => ~last.panic

\* What holds: the filter GobDecode makes of a buffer has as many bytes as the
\* buffer has after its two leading bytes, and an add panics only on a filter
\* without bits.
DecodedHasBufferLength ==
    /\ (last.op = "GobDecode" /\ last.err = "nil") =>
           Len(valueOf(last.v).bits) = Len(buf) - 2
    /\ last.panic => (last.op = "addBytes" /\ Len(last.pre.bits) = 0)

\* A hasher is registered when bloomHasherIds gives it an id, which
\* bloomHashers maps back to it.
hasHasherId(h) ==
    /\ bloomHasherIds(h) \in 1..Len(bloomHashers)
    /\ bloomHashers[bloomHasherIds(h)] = h

\* C29: GobEncode of a filter whose hasher is not registered returns no error
\* and writes hasher id 0; GobDecode of that output fails with the
\* unknown-hasher error and leaves its receiver alone; a decode of an encoded
\* filter succeeds only when the hasher of that filter is registered.
C29_UnregisteredHasher ==
    /\ (last.op = "GobEncode" /\ ~hasHasherId(last.pre.hasher)) =>
           /\ last.err = "nil"
           /\ buf[1] = 1
           /\ buf[2] = 0
           /\ Len(buf) = Len(last.pre.bits) + 2
           /\ GobDecodeErr(buf) = "invalid bloom filter encoding (unknown hasher type)"
    /\ (last.op = "GobDecode" /\ bufSrc.set /\ ~hasHasherId(bufSrc.hasher)) =>
           /\ last.err = "invalid bloom filter encoding (unknown hasher type)"
           /\ valueOf(last.v) = last.pre
    /\ (last.op = "GobDecode" /\ bufSrc.set /\ last.err = "nil") =>
           /\ hasHasherId(bufSrc.hasher)
           /\ valueOf(last.v).hasher = bufSrc.hasher

\* A filter made with the hasher CRC, which has no id, was encoded and the
\* decode of the output failed.
C29_Witness ==
    /\ last.op = "GobDecode"
    /\ bufSrc.set
    /\ bufSrc.hasher = "CRC"
    /\ Len(bufSrc.bits) = bloomSizeBase
    /\ buf[2] = 0
    /\ last.err = "invalid bloom filter encoding (unknown hasher type)"

\* The filter variables that hold a filter: a hasher and a bit array that add
\* and maybeHas can index.
usableVars == {v \in FilterVars : filt[v].hasher # "nil" /\ Len(valueOf(v).bits) > 0}

\* C30: on every filter, a freshly made empty one included, maybeHasBytes
\* returns true for every input from which the filter's hasher derives no
\* probes; it returns false only for inputs that yield at least one probe.
\* The inputs without a run of four word bytes, and those whose only
\* fragment starts are digits, yield no probes.
C30_NoProbesMeansPresent ==
    /\ \A w \in ControlInputs : HashTab[bloomDefaultHash][w] = <<>>
    /\ \A v \in FilterVars, w \in Words :
           (filt[v].hasher # "nil" /\ HashTab[filt[v].hasher][w] = <<>>)
               => maybeHasBytes(valueOf(v), w)
    /\ \A v \in usableVars, w \in Words :
           ~maybeHasBytes(valueOf(v), w) => Len(HashTab[filt[v].hasher][w]) >= 1

\* A freshly made filter with no bit set reports "2024" and "ab cd" present
\* and "testing", which yields probes, absent.
C30_Witness ==
    /\ last.op = "make"
    /\ ~hasBit(valueOf("b").bits)
    /\ maybeHasBytes(valueOf("b"), <<50, 48, 50, 52>>)
    /\ maybeHasBytes(valueOf("b"), <<97, 98, 32, 99, 100>>)
    /\ ~maybeHasBytes(valueOf("b"), Testing)

\* ---------------------------------------------------------- posting lists
\*
\* A posting list is a slice of uint32 offsets, stored as the unsigned
\* varints of the successive differences.  A uint32 the model computes with
\* is a pair <<hi, lo>> of its two 16-bit halves, so that the subtraction
\* and the sum wrap at 2^32 as in the code.

\* The longest posting list of the model.
MaxOffsets == 3

Half == 65536

\* uint32(n), for an integer n the model can hold (-2^31 < n < 2^31)
w32(n) == <<(n \div Half) % Half, n % Half>>

\* a + b on uint32
w32Add(a, b) ==
    LET lo == a[2] + b[2]
    IN  <<(a[1] + b[1] + (lo \div Half)) % Half, lo % Half>>

\* x >> 7 on uint32
w32Shr7(x) == <<x[1] \div 128, (x[2] \div 128) + (x[1] % 128) * 512>>

\* x << 7 on uint32
w32Shl7(x) == <<(x[1] * 128 + (x[2] \div 512)) % Half, (x[2] % 512) * 128>>

\* binary.PutUvarint(enc[:], uint64(x)): the bytes written, enc[:m]
RECURSIVE PutUvarint(_)
PutUvarint(x) ==
    IF x[1] > 0 \/ x[2] >= 128
    THEN <<(x[2] % 128) + 128>> \o PutUvarint(w32Shr7(x))
    ELSE <<x[2]>>

\* toDeltasFrom with "last = p" left out.
RECURSIVE toDeltasKeepsLast(_, _, _)
toDeltasKeepsLast(offs, k, lst) ==
    IF k > Len(offs) THEN <<>>
    ELSE LET p == offs[k]
             delta == w32(p - lst)
         IN  PutUvarint(delta) \o toDeltasKeepsLast(offs, k + 1, lst)

\* The deltas of offsets[k..], after a previous offset of lst.
RECURSIVE toDeltasFrom(_, _, _)
toDeltasFrom(offs, k, lst) ==
    IF k > Len(offs) THEN <<>>
    ELSE LET p == offs[k]
             delta == w32(p - lst)
         IN  PutUvarint(delta) \o toDeltasFrom(offs, k + 1, p)

toDeltas(offs) == toDeltasFrom(offs, 1, 0)

\* The number of bytes of the varint that starts at data[k], 0 when data ends
\* before the varint does.
RECURSIVE uvarintLen(_, _)
uvarintLen(data, k) ==
    IF k > Len(data) THEN 0
    ELSE IF data[k] < 128 THEN 1
    ELSE LET m == uvarintLen(data, k + 1) IN IF m = 0 THEN 0 ELSE m + 1

\* uint32(delta) for delta, _ := binary.Uvarint(data[k-1:])
RECURSIVE Uvarint(_, _)
Uvarint(data, k) ==
    IF k > Len(data) THEN <<0, 0>>
    ELSE IF data[k] < 128 THEN <<0, data[k]>>
    ELSE w32Add(<<0, data[k] - 128>>, w32Shl7(Uvarint(data, k + 1)))

\* The reader of a posting list: the running sum of the varints of data[k..].
RECURSIVE fromDeltasFrom(_, _, _)
fromDeltasFrom(data, k, lst) ==
    LET m == uvarintLen(data, k)
    IN  IF m = 0 THEN <<>>
        ELSE LET offset == w32Add(lst, Uvarint(data, k))
             IN  <<offset>> \o fromDeltasFrom(data, k + m, offset)

fromDeltas(data) == fromDeltasFrom(data, 1, <<0, 0>>)

\* Offsets around the lengths of a varint: 1 byte up to 127, 2 up to 16383,
\* 3 up to 2^21 - 1, 4 up to 2^28 - 1, 5 beyond; the largest is 2^31 - 1.
OffsetValues ==
    {0, 1, 127, 128, 16383, 16384, 2097151, 2097152, 268435455, 268435456,
     2147483647}

\* The ascending sequences of at most MaxOffsets offsets.
AscendingOffsets ==
    { xs \in UNION {[1..n -> OffsetValues] : n \in 0..MaxOffsets} :
        \A i \in 1..(Len(xs) - 1) : xs[i] <= xs[i + 1] }

\* deltas = toDeltas(offsets)
ToDeltas ==
    /\ dpc = "start"
    /\ deltas' = toDeltas(offsets)
    /\ dpc' = "encoded"
    /\ UNCHANGED <<offsets, decoded>>
    /\ UNCHANGED notDeltaVars

\* decoded = fromDeltas(deltas)
ReadDeltas ==
    /\ dpc = "encoded"
    /\ decoded' = fromDeltas(deltas)
    /\ dpc' = "decoded"
    /\ UNCHANGED <<offsets, deltas>>
    /\ UNCHANGED notDeltaVars

\* ------------------------------------------------- claims: posting lists

\* C6: for an ascending posting list xs, the running sum, from 0, of the
\* unsigned varints of toDeltas(xs) read one after another is xs again, of the
\* same length and in the same order, and the first varint is xs[0] - 0.
C6_ToDeltasRoundTrip ==
    /\ dpc = "decoded" => decoded = [i \in 1..Len(offsets) |-> w32(offsets[i])]
    /\ (dpc \in {"encoded", "decoded"} /\ offsets # <<>>)
           => Uvarint(deltas, 1) = w32(offsets[1] - 0)

\* A list of rising offsets has been encoded, with a varint of several bytes,
\* and read back.
C6_Witness ==
    /\ dpc = "decoded"
    /\ Len(offsets) >= 2
    /\ 0 < offsets[1]
    /\ offsets[1] < offsets[2]
    /\ Len(deltas) > Len(offsets)

\* ------------------------------------------------------------ index builder
\*
\* A document's name and content are sequences of runes; a rune below 128 is
\* an ASCII byte and any other rune stands for its UTF-8 bytes.  A stream (a
\* shard file) is a sequence of items: an item is a rune of content, a byte of
\* a posting list or of the filter, or a uint32 of the layout.  The builder's
\* Add and Write and the reader follow the description of the shard format
\* (sections in a fixed order, a table of contents, a footer; the filter fed
\* by Add and shrunk to bloomDefaultLoad by Write); convert, toDeltas and the
\* section readers follow their code.

\* The largest number of documents of a shard.
MaxDocs == 2

\* f2: "to carry", f3/f3: "bl" and two runes beyond ASCII, a: "hey you",
\* f2: "Some text"
Documents ==
    { [name |-> <<102, 50>>, branches |-> 1,
       content |-> <<116, 111, 32, 99, 97, 114, 114, 121>>],
      [name |-> <<102, 51, 47, 102, 51>>, branches |-> 1,
       content |-> <<98, 108, 8730, 176>>],
      [name |-> <<97>>, branches |-> 3,
       content |-> <<104, 101, 121, 32, 121, 111, 117>>],
      [name |-> <<102, 50>>, branches |-> 2,
       content |-> <<83, 111, 109, 101, 32, 116, 101, 120, 116>>] }

ngramSize == 3

lowerRune(x) == IF 65 <= x /\ x <= 90 THEN x + 32 ELSE x

\* string(dest.data[i : i+ngramSize]), dest.data the lowercased data
ngramAt(data, i) == <<lowerRune(data[i + 1]), lowerRune(data[i + 2]), lowerRune(data[i + 3])>>

ngramsOf(data) == {ngramAt(data, i) : i \in 0..(Len(data) - ngramSize)}

\* The n-grams of the model's documents.
AllNgrams == UNION {ngramsOf(doc.content) \cup ngramsOf(doc.name) : doc \in Documents}

\* The order of two different n-grams in a shard.
ngramLess(x, y) ==
    \E k \in 1..ngramSize : x[k] < y[k] /\ \A j \in 1..(k - 1) : x[j] = y[j]

RECURSIVE sortNgrams(_)
sortNgrams(S) ==
    IF S = {} THEN <<>>
    ELSE LET m == CHOOSE x \in S : \A y \in S \ {x} : ngramLess(x, y)
         IN  <<m>> \o sortNgrams(S \ {m})

\* A postings builder.  postings[ng] holds the deltas of the offsets of ng,
\* <<>> for an n-gram without any.
newPostingsBuilder ==
    [postings |-> [ng \in AllNgrams |-> <<>>],
     lastOffsets |-> [ng \in AllNgrams |-> 0],
     endRunes |-> <<>>,
     runeCount |-> 0,
     isPlainASCII |-> TRUE]

RECURSIVE addNgrams(_, _, _)
\* for i := range data: the n-gram at i is posted at offset startOff + i
addNgrams(pb, data, i) ==
    IF i + ngramSize > Len(data) THEN pb
    ELSE LET ngram == ngramAt(data, i)
             off == pb.runeCount + i
             delta == w32(off - pb.lastOffsets[ngram])
         IN  addNgrams([pb EXCEPT !.postings[ngram] = @ \o PutUvarint(delta),
                                  !.lastOffsets[ngram] = off],
                       data, i + 1)

newSearchableString(pb, data) ==
    [addNgrams(pb, data, 0) EXCEPT
        !.runeCount = @ + Len(data),
        !.endRunes = Append(@, pb.runeCount + Len(data)),
        !.isPlainASCII = @ /\ \A k \in 1..Len(data) : data[k] < 128]

\* NewIndexBuilder(repo)
NewIndexBuilder ==
    [contentStrings |-> <<>>,
     nameStrings |-> <<>>,
     branchMasks |-> <<>>,
     contentPostings |-> newPostingsBuilder,
     namePostings |-> newPostingsBuilder,
     contentBloom |-> makeBloomFilterEmpty,
     indexTime |-> 0]

\* b.Add(doc)
Add(b, doc) ==
    [b EXCEPT
        !.contentStrings = Append(@, doc.content),
        !.nameStrings = Append(@, doc.name),
        !.branchMasks = Append(@, doc.branches),
        !.contentPostings = newSearchableString(@, doc.content),
        !.namePostings = newSearchableString(@, doc.name),
        !.contentBloom.bits = add(@, probesOf(hash(b.contentBloom.hasher, doc.content)))]

\* ------------------------------------------------------------- shard codec

\* 0.42, over TargetDen
bloomDefaultLoad == 4200

IndexFormatVersion == 16

\* The fields of the table of contents, in the order Write streams them.
SectionNames ==
    << "fileContents", "fileNames", "postings", "ngramText", "fileEndRunes",
       "namePostings", "nameNgramText", "nameEndRunes", "branchMasks",
       "contentBloom", "metaData" >>

CompoundSections == {"fileContents", "fileNames", "postings", "namePostings"}

RECURSIVE Concat(_)
Concat(items) == IF items = <<>> THEN <<>> ELSE Head(items) \o Concat(Tail(items))

\* The posting lists of pb in the order of their n-grams.
sortedNgrams(pb) == sortNgrams({ng \in AllNgrams : pb.postings[ng] # <<>>})

postingItems(pb) ==
    LET ngs == sortedNgrams(pb) IN [k \in 1..Len(ngs) |-> pb.postings[ngs[k]]]

boolItem(x) == IF x THEN 1 ELSE 0

\* What Write streams for each section: the items of a compound section, the
\* one item of a simple section.
sectionItems(b, version) ==
    [ fileContents |-> b.contentStrings,
      fileNames |-> b.nameStrings,
      postings |-> postingItems(b.contentPostings),
      ngramText |-> <<Concat(sortedNgrams(b.contentPostings))>>,
      fileEndRunes |-> <<b.contentPostings.endRunes>>,
      namePostings |-> postingItems(b.namePostings),
      nameNgramText |-> <<Concat(sortedNgrams(b.namePostings))>>,
      nameEndRunes |-> <<b.namePostings.endRunes>>,
      branchMasks |-> <<b.branchMasks>>,
      contentBloom |->
          <<GobEncode(shrinkToSize(b.contentBloom, bloomDefaultLoad, TargetDen))>>,
      metaData |->
          << <<b.indexTime,
               boolItem(b.contentPostings.isPlainASCII /\ b.namePostings.isPlainASCII),
               version>> >> ]

\* The offsets in the stream of items written from off on.
RECURSIVE itemOffsets(_, _, _)
itemOffsets(items, k, off) ==
    IF k > Len(items) THEN <<>>
    ELSE <<off>> \o itemOffsets(items, k + 1, off + Len(items[k]))

\* The stream and the table of contents after the sections k.. are written.
RECURSIVE writeSections(_, _, _, _)
writeSections(secs, k, out, toc) ==
    IF k > Len(SectionNames) THEN [out |-> out, toc |-> toc]
    ELSE LET items == secs[SectionNames[k]]
             off == Len(out)
             data == Concat(items)
         IN  IF SectionNames[k] \in CompoundSections
             THEN LET offs == itemOffsets(items, 1, off)
                  IN  writeSections(secs, k + 1, out \o data \o offs,
                          toc \o <<off, Len(data), off + Len(data), Len(offs)>>)
             ELSE writeSections(secs, k + 1, out \o data, toc \o <<off, Len(data)>>)

\* b.Write(out) by a program of the given version: the sections, the table of
\* contents, and the footer that locates it.
Write(b, version) ==
    LET w == writeSections(sectionItems(b, version), 1, <<>>, <<>>)
    IN  w.out \o w.toc \o <<Len(w.out), Len(w.toc), IndexFormatVersion>>

\* The k-th section of the table of contents and those after it; its fields
\* start at toc[i + 1].  A compound section's offsets are read with it.
RECURSIVE readSections(_, _, _, _)
readSections(f, toc, k, i) ==
    IF k > Len(SectionNames) THEN <<>>
    ELSE IF SectionNames[k] \in CompoundSections
         THEN << [off |-> toc[i + 1], sz |-> toc[i + 2],
                  offsets |-> Slice(f, toc[i + 3], toc[i + 3] + toc[i + 4])] >>
              \o readSections(f, toc, k + 1, i + 4)
         ELSE << [off |-> toc[i + 1], sz |-> toc[i + 2], offsets |-> <<>>] >>
              \o readSections(f, toc, k + 1, i + 2)

\* rd.readTOC(&toc): the footer locates the table of contents.
readTOC(f) ==
    LET tocOff == f[Len(f) - 2]
        tocSz == f[Len(f) - 1]
        secs == readSections(f, Slice(f, tocOff, tocOff + tocSz), 1, 0)
    IN  [name \in {SectionNames[k] : k \in 1..Len(SectionNames)} |->
            secs[CHOOSE k \in 1..Len(SectionNames) : SectionNames[k] = name]]

\* f.Read(sec.off, sec.sz)
readSimpleSection(f, sec) == Slice(f, sec.off, sec.off + sec.sz)

\* The items of a compound section.
readCompoundSection(f, sec) ==
    [i \in 1..Len(sec.offsets) |->
        LET next == IF i = Len(sec.offsets) THEN sec.off + sec.sz ELSE sec.offsets[i + 1]
        IN  readSimpleSection(f, [off |-> sec.offsets[i], sz |-> next - sec.offsets[i]])]

\* The contents of the section called name, as assertShardEqual compares them.
sectionContents(f, name) ==
    IF name \in CompoundSections
    THEN readCompoundSection(f, readTOC(f)[name])
    ELSE <<readSimpleSection(f, readTOC(f)[name])>>

\* The n-grams of an n-gram text section.
ngramsOfText(text) ==
    [k \in 1..(Len(text) \div ngramSize) |->
        Slice(text, (k - 1) * ngramSize, k * ngramSize)]

\* The integer a uint32 below 2^31 stands for.
w32Int(x) == x[1] * Half + x[2]

\* NewSearcher(f): the index data of the shard f.
NewSearcher(f) ==
    LET toc == readTOC(f)
        ngs == ngramsOfText(readSimpleSection(f, toc.ngramText))
        nameNgs == ngramsOfText(readSimpleSection(f, toc.nameNgramText))
        lists == readCompoundSection(f, toc.namePostings)
        meta == readSimpleSection(f, toc.metaData)
        itemEnd(sec, k) == IF k = Len(sec.offsets) THEN sec.off + sec.sz ELSE sec.offsets[k + 1]
    IN  [ file |-> f,
          boundaries |-> toc.fileContents.offsets \o <<toc.fileContents.off + toc.fileContents.sz>>,
          fileNameContent |-> readSimpleSection(f, toc.fileNames),
          fileNameIndex |->
              [k \in 1..Len(toc.fileNames.offsets) |-> toc.fileNames.offsets[k] - toc.fileNames.off]
              \o <<toc.fileNames.sz>>,
          ngrams |->
              [ng \in AllNgrams |->
                  IF \E k \in 1..Len(ngs) : ngs[k] = ng
                  THEN LET k == CHOOSE k \in 1..Len(ngs) : ngs[k] = ng
                       IN  [off |-> toc.postings.offsets[k],
                            sz |-> itemEnd(toc.postings, k) - toc.postings.offsets[k]]
                  ELSE [off |-> 0, sz |-> 0]],
          fileNameNgrams |->
              [ng \in AllNgrams |->
                  IF \E k \in 1..Len(nameNgs) : nameNgs[k] = ng
                  THEN LET k == CHOOSE k \in 1..Len(nameNgs) : nameNgs[k] = ng
                           offs == fromDeltas(lists[k])
                       IN  [j \in 1..Len(offs) |-> w32Int(offs[j])]
                  ELSE <<>>],
          fileEndRunes |-> readSimpleSection(f, toc.fileEndRunes),
          fileNameEndRunes |-> readSimpleSection(f, toc.nameEndRunes),
          fileBranchMasks |-> readSimpleSection(f, toc.branchMasks),
          contentBloom |-> GobDecode(readSimpleSection(f, toc.contentBloom)),
          metaData |-> [IndexTime |-> meta[1], PlainASCII |-> meta[2] = 1,
                        ZoektVersion |-> meta[3]] ]

\* d.readContents(docID)
readContents(d, docID) == Slice(d.file, d.boundaries[docID + 1], d.boundaries[docID + 2])

\* d.readSectionBlob(sec)
readSectionBlob(d, sec) == Slice(d.file, sec.off, sec.off + sec.sz)

\* convert(d): the builder NewIndexBuilder returns, with the fields convert
\* assigns.
convert(d) ==
    LET ib == NewIndexBuilder
        docs == 1..(Len(d.boundaries) - 1)
    IN  [ib EXCEPT
            !.contentStrings = [docID \in docs |-> readContents(d, docID - 1)],
            !.nameStrings =
                [docID \in docs |->
                    Slice(d.fileNameContent, d.fileNameIndex[docID], d.fileNameIndex[docID + 1])],
            !.contentPostings =
                [@ EXCEPT !.endRunes = d.fileEndRunes,
                          !.isPlainASCII = d.metaData.PlainASCII,
                          !.postings = [ng \in AllNgrams |-> readSectionBlob(d, d.ngrams[ng])]],
            !.namePostings =
                [@ EXCEPT !.endRunes = d.fileNameEndRunes,
                          !.isPlainASCII = d.metaData.PlainASCII,
                          !.postings = [ng \in AllNgrams |-> toDeltas(d.fileNameNgrams[ng])]],
            !.branchMasks = d.fileBranchMasks]

\* ------------------------------------------------------- the conversion model

IndexTimes == {1, 2}

ZoektVersions == {1, 2}

\* The index data of the shard of an empty builder.
NoIndexData == NewSearcher(Write(NewIndexBuilder, 0))

convertIdle ==
    /\ builder = NewIndexBuilder
    /\ srcIF = <<>>
    /\ srcD = NoIndexData
    /\ b2 = NewIndexBuilder
    /\ buf2 = <<>>
    /\ Version = 0
    /\ cpc = "idle"

\* builder.Add(doc)
AddDocument(doc) ==
    /\ cpc = "build"
    /\ Len(builder.contentStrings) < MaxDocs
    /\ builder' = Add(builder, doc)
    /\ UNCHANGED <<srcIF, srcD, b2, buf2, Version, cpc>>
    /\ UNCHANGED notConvertVars

\* builder.Write(&buf): the source shard
WriteShard ==
    /\ cpc = "build"
    /\ srcIF' = Write(builder, Version)
    /\ cpc' = "written"
    /\ UNCHANGED <<builder, srcD, b2, buf2, Version>>
    /\ UNCHANGED notConvertVars

\* srcD = NewSearcher(srcIF)
OpenShard ==
    /\ cpc = "written"
    /\ srcD' = NewSearcher(srcIF)
    /\ cpc' = "parsed"
    /\ UNCHANGED <<builder, srcIF, b2, buf2, Version>>
    /\ UNCHANGED notConvertVars

\* b2 = convert(srcD); b2.indexTime = srcD.metaData.IndexTime;
\* Version = srcD.metaData.ZoektVersion
Convert ==
    /\ cpc = "parsed"
    /\ b2' = [convert(srcD) EXCEPT !.indexTime = srcD.metaData.IndexTime]
    /\ Version' = srcD.metaData.ZoektVersion
    /\ cpc' = "converted"
    /\ UNCHANGED <<builder, srcIF, srcD, buf2>>
    /\ UNCHANGED notConvertVars

\* b2.Write(&buf2)
WriteAgain ==
    /\ cpc = "converted"
    /\ buf2' = Write(b2, Version)
    /\ cpc' = "rewritten"
    /\ UNCHANGED <<builder, srcIF, srcD, b2, Version>>
    /\ UNCHANGED notConvertVars

\* ----------------------------------------------------- claims: the conversion

\* C5: a shard that is parsed, rebuilt by convert with its index time and
\* version restored, and written again is the same stream, and every section
\* of the table of contents has the same contents in both shards.
C5_ConvertRoundTrip ==
    cpc = "rewritten" =>
        /\ buf2 = srcIF
        /\ \A k \in 1..Len(SectionNames) :
               sectionContents(buf2, SectionNames[k]) = sectionContents(srcIF, SectionNames[k])

\* Every section other than the filter's has the same contents in both shards.
ConvertKeepsAllButTheFilter ==
    cpc = "rewritten" =>
        \A k \in 1..Len(SectionNames) :
            SectionNames[k] # "contentBloom" =>
                sectionContents(buf2, SectionNames[k]) = sectionContents(srcIF, SectionNames[k])

\* The round trip of a shard whose documents have no word for the filter.
ConvertRoundTripWithoutWords ==
    (cpc = "rewritten" /\ loadOnes(builder.contentBloom.bits) = 0) => buf2 = srcIF

\* -------------------------------------------------------- sharded searcher
\*
\* The sharded searcher fans a Search or a List out to its shards on a pool
\* of workers and merges what they return.  A shard of the model is one of
\* the two searchers of the tests: a rankSearcher, which returns one file
\* with one match unless it finds its context done when called, and a
\* crashSearcher, which panics.

\* The largest number of registered shards.
MaxShards == 3

ShardKeys == 1..MaxShards

\* The rank of the shard registered under key k: two shards share a rank.
rankOf(k) == (k + 1) \div 2

\* The repository of the shard registered under key k, by name: repositories
\* may span two shards.
repoOf(k) == (k + 1) \div 2

SearcherKinds == {"rankSearcher", "crashSearcher"}

\* The values of SearchOptions.TotalMaxMatchCount; 0 is no cap.
MatchCounts == {0, 1, 2}

\* The sizes of the worker pool, newShardedSearcher(n).
Parallelism == {1, 2}

\* math.Inf(-1), below every priority (a priority is a rank, 0 or more)
NegInf == -1

\* p.append(v) on a prioritySlice
prioAppend(p, v) == Append(p, v)

\* A remove that takes every occurrence of v out.
prioRemoveAll(p, v) == SelectSeq(p, LAMBDA x : x # v)

\* p.remove(v): one occurrence of v leaves the slice.
prioRemove(p, v) ==
    IF \E i \in 1..Len(p) : p[i] = v
    THEN LET i == CHOOSE i \in 1..Len(p) : p[i] = v
         IN  SubSeq(p, 1, i - 1) \o SubSeq(p, i + 1, Len(p))
    ELSE p

\* p.max()
prioMax(p) ==
    IF p = <<>> THEN NegInf
    ELSE CHOOSE v \in {p[i] : i \in 1..Len(p)} : \A i \in 1..Len(p) : p[i] <= v

\* The longest priority slice of the model of the slice on its own.
MaxPending == 4

\* The values appended and removed there.
PrioValues == {1, 2, 3}

\* p := &prioritySlice{}
prioIdle ==
    /\ prio = <<>>
    /\ prioLive = [v \in PrioValues |-> 0]
    /\ prioLast = [op |-> "none", value |-> 0]

\* p.append(v); p.max()
PrioAppend(v) ==
    /\ Len(prio) < MaxPending
    /\ prio' = prioAppend(prio, v)
    /\ prioLive' = [prioLive EXCEPT ![v] = @ + 1]
    /\ prioLast' = [op |-> "append", value |-> v]
    /\ UNCHANGED notPrioVars

\* p.remove(v); p.max()
PrioRemove(v) ==
    /\ prio' = prioRemove(prio, v)
    /\ prioLive' = [prioLive EXCEPT ![v] = IF @ > 0 THEN @ - 1 ELSE 0]
    /\ prioLast' = [op |-> "remove", value |-> v]
    /\ UNCHANGED notPrioVars

\* The searchers of TestShardedSearcher_List, searcherForTest(t,
\* testIndexBuilder(t, repos[i])), named by their repository.
IndexSearchers == {"repo-a", "repo-b"}

\* The values of the opts argument of List: nil, &ListOptions{Minimal: false}
\* and &ListOptions{Minimal: true}.
ListOpts == {"nil", "Minimal=false", "Minimal=true"}

\* repos[0] and repos[1] of the test. A repository is named by a number:
\* 1 is "repo-a" and 2 is "repo-b".
Repository(kind) ==
    IF kind = "repo-a"
    THEN [Name |-> 1, ID |-> 1234, Rank |-> 0, HasSymbols |-> FALSE,
          Branches |-> <<"main", "dev">>]
    ELSE [Name |-> 2, ID |-> 0, Rank |-> 0, HasSymbols |-> FALSE,
          Branches |-> <<"main", "dev">>]

\* zoekt.RepoListEntry{Repository: r, Stats: RepoStats{Shards: n}}
RepoListEntry(r, n) ==
    [Name |-> r.Name, ID |-> r.ID, Rank |-> r.Rank, HasSymbols |-> r.HasSymbols,
     Branches |-> r.Branches, Shards |-> n]

\* The entry of RepoList.Minimal under the key r.ID
MinimalRepoListEntry(r) == [ID |-> r.ID, HasSymbols |-> r.HasSymbols, Branches |-> r.Branches]

\* What a shard hands back: a SearchResult or a RepoList, and an error.
EmptyResult ==
    [Files |-> <<>>, MatchCount |-> 0, Crashes |-> 0, Repos |-> {}, Minimal |-> {},
     err |-> "nil"]

\* The List of an index shard: its repository, counted as one shard; with
\* Minimal set, a repository that has an ID is reported minimally instead.
indexDataList(kind, lo) ==
    IF lo = "Minimal=true" /\ Repository(kind).ID > 0
    THEN [EmptyResult EXCEPT !.Minimal = {MinimalRepoListEntry(Repository(kind))}]
    ELSE [EmptyResult EXCEPT !.Repos = {RepoListEntry(Repository(kind), 1)}]

\* An aggregate that keeps the first entry of a repository and does not add
\* the shards of the later ones.
addEntryNoSum(A, e) ==
    IF \E a \in A : a.Name = e.Name THEN A ELSE A \cup {e}

\* One entry joins the entries merged so far: the shards of a repository
\* that is already there are summed.
addEntry(A, e) ==
    IF \E a \in A : a.Name = e.Name
    THEN {IF a.Name = e.Name THEN [a EXCEPT !.Shards = @ + e.Shards] ELSE a : a \in A}
    ELSE A \cup {e}

RECURSIVE mergeRepos(_, _)
\* The entries R of one shard join the entries A merged so far.
mergeRepos(A, R) ==
    IF R = {} THEN A
    ELSE LET e == CHOOSE e \in R : TRUE IN mergeRepos(addEntry(A, e), R \ {e})

\* agg.Minimal[id] = entry, for the minimal entries M of one shard
mergeMinimal(A, M) == {a \in A : \A m \in M : m.ID # a.ID} \cup M

\* A Search that does not look at its context.
rankSearcherSearchIgnoresCtx(rank, ctxDone) ==
    [EmptyResult EXCEPT !.Files = <<[FileName |-> rank, Score |-> rank]>>,
                        !.MatchCount = 1]

\* rankSearcher.Search, called with a context that is done or not
rankSearcherSearch(rank, ctxDone) ==
    IF ctxDone THEN EmptyResult
    ELSE [EmptyResult EXCEPT !.Files = <<[FileName |-> rank, Score |-> rank]>>,
                             !.MatchCount = 1]

\* rankSearcher.List: the repository of the searcher with its rank, and
\* zero statistics.
rankSearcherList(repo, rank) ==
    [EmptyResult EXCEPT
        !.Repos = {RepoListEntry([Name |-> repo, ID |-> 0, Rank |-> rank,
                                  HasSymbols |-> FALSE, Branches |-> <<>>], 0)}]

\* The values appended to the slice and not yet removed.
liveValues == {v \in PrioValues : prioLive[v] > 0}

\* C17: after any sequence of appends and removes, max() is the largest value
\* appended and not yet removed, duplicates counted, and negative infinity
\* when no value is left.
C17_PrioritySliceMax ==
    /\ liveValues = {} => prioMax(prio) = NegInf
    /\ liveValues # {} =>
           /\ prioMax(prio) \in liveValues
           /\ \A v \in liveValues : v <= prioMax(prio)

\* A value appended twice and removed once is still the maximum, above a
\* smaller value that is left.
C17_Witness ==
    /\ prioLast.op = "remove"
    /\ prioLive[prioLast.value] = 1
    /\ prioMax(prio) = prioLast.value
    /\ \E v \in liveValues : v < prioLast.value

\* A worker that lets the panic of a shard through: the call fails.
searchOneShardNoRecover(op, lo, kind, k, ctxDone) ==
    IF kind = "crashSearcher" THEN [EmptyResult EXCEPT !.err = "panic"]
    ELSE IF kind \in IndexSearchers THEN indexDataList(kind, lo)
    ELSE IF op = "List" THEN rankSearcherList(repoOf(k), rankOf(k))
    ELSE rankSearcherSearch(rankOf(k), ctxDone)

\* What a worker delivers for the shard k: the shard's result, or, when the
\* shard panics, a result with one crash and nothing else.
\* An index shard is only ever listed.
searchOneShard(op, lo, kind, k, ctxDone) ==
    IF kind = "crashSearcher" THEN [EmptyResult EXCEPT !.Crashes = 1]
    ELSE IF kind \in IndexSearchers THEN indexDataList(kind, lo)
    ELSE IF op = "List" THEN rankSearcherList(repoOf(k), rankOf(k))
    ELSE rankSearcherSearch(rankOf(k), ctxDone)

\* The files in the order of their scores, highest first.
RECURSIVE sortFilesByScore(_)
sortFilesByScore(files) ==
    IF files = <<>> THEN <<>>
    ELSE LET i == CHOOSE i \in 1..Len(files) :
                      /\ \A j \in 1..Len(files) : files[j].Score <= files[i].Score
                      /\ \A j \in 1..(i - 1) : files[j].Score < files[i].Score
         IN  <<files[i]>> \o
             sortFilesByScore(SubSeq(files, 1, i - 1) \o SubSeq(files, i + 1, Len(files)))

\* atCancel is, by shard key, the state of the shard search at the moment the
\* caller canceled the context ("none" before that).
NoCall ==
    [op |-> "none", TotalMaxMatchCount |-> 0, ListOptions |-> "nil", workers |-> 0,
     ctxDone |-> FALSE, returned |-> FALSE, err |-> "nil",
     atCancel |-> [k \in ShardKeys |-> "none"]]

\* A shard search of a call: its state, whether the shard found its context
\* done when it was called, whether the cap canceled its context, whether the
\* shard panicked, and the result delivered for it.
NoTask ==
    [state |-> "none", sawDone |-> FALSE, capCanceled |-> FALSE, panicked |-> FALSE,
     sr |-> EmptyResult]

NoAggregate ==
    [Files |-> <<>>, MatchCount |-> 0, Crashes |-> 0, Repos |-> {}, Minimal |-> {}]

shardsIdle ==
    /\ shards = [k \in ShardKeys |-> "none"]
    /\ call = NoCall
    /\ task = [k \in ShardKeys |-> NoTask]
    /\ aggregate = NoAggregate
    /\ pending = <<>>

\* The shard searches that are queued or running.
unfinished == {k \in ShardKeys : task[k].state \in {"queued", "running"}}

RECURSIVE sumMatches(_, _)
sumMatches(t, S) ==
    IF S = {} THEN 0
    ELSE LET k == CHOOSE k \in S : TRUE IN t[k].sr.MatchCount + sumMatches(t, S \ {k})

\* The matches merged so far from shards of rank r or higher.
matchesAtOrAbove(t, r) ==
    sumMatches(t, {k \in ShardKeys : t[k].state \in {"completed", "canceled"} /\ rankOf(k) >= r})

\* The highest rank of the shards S, NegInf when there is none.
topRank(S) ==
    IF S = {} THEN NegInf
    ELSE CHOOSE r \in {rankOf(j) : j \in S} : \A j \in S : rankOf(j) <= r

\* A cap that cancels whatever is unfinished once the matches merged from all
\* shards reach it.
capCancelsAnyRank(t, j, top, c) ==
    /\ c > 0
    /\ matchesAtOrAbove(t, 0) >= c

\* Whether the cap c cancels the context of the unfinished shard j, given the
\* shard searches t after a merge and the highest priority top still pending:
\* j is below that priority and the matches merged from shards of its rank or
\* higher reach the cap.
capCancels(t, j, top, c) ==
    /\ c > 0
    /\ rankOf(j) < top
    /\ matchesAtOrAbove(t, rankOf(j)) >= c

\* ss.Search(ctx, q, opts) or ss.List(ctx, q, opts) begins: the shards are
\* snapshotted and queued.
StartCall(op, c, lo, p) ==
    /\ call.op = "none"
    /\ op = "Search" => \A k \in ShardKeys : shards[k] \notin IndexSearchers
    /\ call' = [NoCall EXCEPT !.op = op, !.TotalMaxMatchCount = c, !.ListOptions = lo,
                              !.workers = p]
    /\ task' = [k \in ShardKeys |->
                   IF shards[k] = "none" THEN NoTask ELSE [NoTask EXCEPT !.state = "queued"]]
    /\ UNCHANGED <<shards, aggregate, pending>>
    /\ UNCHANGED notShardVars

\* A worker that takes any queued shard, whatever its rank.
DispatchAnyOrder(k) ==
    /\ call.op # "none" /\ ~call.returned
    /\ task[k].state = "queued"
    /\ Cardinality({j \in ShardKeys : task[j].state = "running"}) < call.workers
    /\ task' = [task EXCEPT ![k].state = "running",
                            ![k].sawDone = call.ctxDone \/ task[k].capCanceled]
    /\ pending' = prioAppend(pending, rankOf(k))
    /\ UNCHANGED <<shards, call, aggregate>>
    /\ UNCHANGED notShardVars

\* A free worker takes the queued shard of the highest rank and calls it; the
\* shard looks at its context.
Dispatch(k) ==
    /\ call.op # "none" /\ ~call.returned
    /\ task[k].state = "queued"
    /\ Cardinality({j \in ShardKeys : task[j].state = "running"}) < call.workers
    /\ \A j \in ShardKeys : task[j].state = "queued" => rankOf(j) <= rankOf(k)
    /\ task' = [task EXCEPT ![k].state = "running",
                            ![k].sawDone = call.ctxDone \/ task[k].capCanceled]
    /\ pending' = prioAppend(pending, rankOf(k))
    /\ UNCHANGED <<shards, call, aggregate>>
    /\ UNCHANGED notShardVars

\* The shard returns or panics, and the worker delivers the result.
Deliver(k) ==
    /\ call.op # "none" /\ ~call.returned
    /\ task[k].state = "running"
    /\ task' = [task EXCEPT ![k].state = "delivered",
                            ![k].panicked = (shards[k] = "crashSearcher"),
                            ![k].sr = searchOneShard(call.op, call.ListOptions, shards[k], k,
                                                     task[k].sawDone)]
    /\ UNCHANGED <<shards, call, aggregate, pending>>
    /\ UNCHANGED notShardVars

\* The result of shard k is merged.  An error ends the call.  When the
\* matches merged from shards of equal or higher rank reach the cap, the
\* contexts of the unfinished shards below the highest pending priority are
\* canceled.
Merge(k) ==
    /\ call.op # "none" /\ ~call.returned
    /\ task[k].state = "delivered"
    /\ LET r == task[k].sr
           observed == task[k].sawDone /\ shards[k] = "rankSearcher" /\ call.op = "Search"
           t == [task EXCEPT ![k].state = IF observed THEN "canceled" ELSE "completed"]
           left == {j \in ShardKeys : t[j].state \in {"queued", "running"}}
           top == Max(prioMax(prioRemove(pending, rankOf(k))),
                      topRank({j \in ShardKeys : t[j].state = "queued"}))
       IN  IF r.err # "nil"
           THEN /\ call' = [call EXCEPT !.returned = TRUE, !.err = r.err]
                /\ task' = t
                /\ UNCHANGED aggregate
           ELSE /\ aggregate' = [Files |-> aggregate.Files \o r.Files,
                                 MatchCount |-> aggregate.MatchCount + r.MatchCount,
                                 Crashes |-> aggregate.Crashes + r.Crashes,
                                 Repos |-> mergeRepos(aggregate.Repos, r.Repos),
                                 Minimal |-> mergeMinimal(aggregate.Minimal, r.Minimal)]
                /\ task' = [j \in ShardKeys |->
                               IF j \in left /\ capCancels(t, j, top, call.TotalMaxMatchCount)
                               THEN [t[j] EXCEPT !.capCanceled = TRUE]
                               ELSE t[j]]
                /\ UNCHANGED call
    /\ pending' = prioRemove(pending, rankOf(k))
    /\ UNCHANGED shards
    /\ UNCHANGED notShardVars

\* The caller cancels the context of the call, or its deadline passes.
Cancel ==
    /\ call.op # "none" /\ ~call.returned /\ ~call.ctxDone
    /\ call' = [call EXCEPT !.ctxDone = TRUE,
                            !.atCancel = [k \in ShardKeys |-> task[k].state]]
    /\ UNCHANGED <<shards, task, aggregate, pending>>
    /\ UNCHANGED notShardVars

\* Every shard search has ended: the call returns the aggregate, its files
\* sorted by score.
Return ==
    /\ call.op # "none" /\ ~call.returned
    /\ \A k \in ShardKeys : task[k].state \in {"none", "completed", "canceled"}
    /\ call' = [call EXCEPT !.returned = TRUE]
    /\ aggregate' = [aggregate EXCEPT !.Files = sortFilesByScore(@)]
    /\ UNCHANGED <<shards, task, pending>>
    /\ UNCHANGED notShardVars

\* ----------------------------------------------- claims: the sharded searcher

\* C4: when shards panic in Search or List, the aggregate call still returns
\* with no error, counts exactly one crash for each shard that panicked, and
\* the other shards are still searched and their results are in the aggregate.
C4_CrashIsolation ==
    /\ call.err = "nil"
    /\ call.returned =>
           /\ aggregate.Crashes = Cardinality({k \in ShardKeys : task[k].panicked})
           /\ \A k \in ShardKeys : shards[k] = "crashSearcher" => task[k].panicked
           /\ \A k \in ShardKeys :
                  shards[k] = "rankSearcher" =>
                      /\ task[k].state \in {"completed", "canceled"}
                      /\ task[k].state = "completed" /\ call.op = "Search" =>
                             \E i \in 1..Len(aggregate.Files) :
                                 aggregate.Files[i].FileName = rankOf(k)
                      /\ call.op = "List" => \E e \in aggregate.Repos : e.Name = repoOf(k)
           /\ call.op = "Search" =>
                  Len(aggregate.Files) =
                      Cardinality({k \in ShardKeys : shards[k] = "rankSearcher"
                                                      /\ task[k].state = "completed"})

\* A Search over a shard that panicked and a shard that returned its file has
\* returned; so has a List.
C4_Witness ==
    /\ call.returned
    /\ call.op = "Search"
    /\ \E k \in ShardKeys : task[k].panicked
    /\ \E k \in ShardKeys : shards[k] = "rankSearcher" /\ task[k].state = "completed"
    /\ aggregate.Files # <<>>

\* The shards that are registered.
registered == {k \in ShardKeys : shards[k] # "none"}

\* A Search over rankSearchers alone has returned, and its caller has not
\* canceled it.
rankSearchReturned ==
    /\ call.returned
    /\ call.op = "Search"
    /\ ~call.ctxDone
    /\ \A k \in registered : shards[k] = "rankSearcher"

\* C12 as stated: with the cap 0 the Search returns the file of every shard;
\* with a cap c > 0 and N > c shards it returns at least c files and fewer
\* than N.
C12_CapCutsShort ==
    rankSearchReturned =>
        /\ call.TotalMaxMatchCount = 0 =>
               /\ Len(aggregate.Files) = Cardinality(registered)
               /\ \A k \in registered : \E i \in 1..Len(aggregate.Files) :
                      aggregate.Files[i].FileName = rankOf(k)
        /\ (call.TotalMaxMatchCount > 0
                /\ Cardinality(registered) > call.TotalMaxMatchCount) =>
               /\ Len(aggregate.Files) >= call.TotalMaxMatchCount
               /\ Len(aggregate.Files) < Cardinality(registered)

\* C12 amended: with the cap 0 the Search returns the file of every shard;
\* with a cap c > 0 and N >= c shards it returns at least c files and at most
\* N, and fewer than N exactly when a shard was called after the cap had
\* canceled its context.
C12_CapBestEffort ==
    rankSearchReturned =>
        /\ call.TotalMaxMatchCount = 0 =>
               /\ Len(aggregate.Files) = Cardinality(registered)
               /\ \A k \in registered : \E i \in 1..Len(aggregate.Files) :
                      aggregate.Files[i].FileName = rankOf(k)
        /\ (call.TotalMaxMatchCount > 0
                /\ Cardinality(registered) >= call.TotalMaxMatchCount) =>
               /\ Len(aggregate.Files) >= call.TotalMaxMatchCount
               /\ Len(aggregate.Files) <= Cardinality(registered)
               /\ Len(aggregate.Files) < Cardinality(registered)
                      <=> \E k \in registered : task[k].sawDone
        /\ aggregate.MatchCount = Len(aggregate.Files)

\* The cap cut a Search short: more shards than the cap, and fewer files
\* than shards.
C12_Witness ==
    /\ rankSearchReturned
    /\ call.TotalMaxMatchCount > 0
    /\ Cardinality(registered) > call.TotalMaxMatchCount
    /\ Len(aggregate.Files) >= call.TotalMaxMatchCount
    /\ Len(aggregate.Files) < Cardinality(registered)
    /\ \E k \in registered : task[k].capCanceled /\ task[k].state = "canceled"

\* The shards whose Search has been called.
dispatched == {k \in registered : task[k].state \notin {"none", "queued"}}

\* The shards whose file is in the result.
withFile == {k \in registered : task[k].state \in {"completed", "canceled"}
                                    /\ task[k].sr.Files # <<>>}

unmerged(t) == {k \in ShardKeys : t[k].state \in {"queued", "running", "delivered"}}

lifeState(st) == IF st = "delivered" THEN "running" ELSE st

\* The moves of the life cycle: into queued when the call begins, from
\* queued to running, from running to completed or canceled.
LifeCycleMoves ==
    { <<"none", "queued">>, <<"queued", "running">>, <<"running", "completed">>,
      <<"running", "canceled">> }

\* C24: a shard search of a Search starts queued, moves only from queued to
\* running and from running to completed or canceled, stays in the terminal
\* state it reached, and, under fair scheduling, reaches one; a shard that
\* panics does so too, and the Search returns.
C24_ShardLifeCycle ==
    /\ [][\A k \in ShardKeys :
             \/ lifeState(task'[k].state) = lifeState(task[k].state)
             \/ <<lifeState(task[k].state), lifeState(task'[k].state)>> \in LifeCycleMoves]_vars
    /\ (call.op = "Search")
           ~> /\ call.returned
              /\ call.err = "nil"
              /\ \A k \in ShardKeys :
                     shards[k] # "none" => task[k].state \in {"completed", "canceled"}

\* A Search has returned over a shard that completed, a shard that was
\* canceled and a shard that panicked.
C24_Witness ==
    /\ call.returned
    /\ call.op = "Search"
    /\ \E k \in registered : task[k].state = "completed" /\ ~task[k].panicked
    /\ \E k \in registered : task[k].state = "canceled"
    /\ \E k \in registered : task[k].state = "completed" /\ task[k].panicked

\* A Search has returned after its caller canceled the context.
canceledSearchReturned == call.returned /\ call.op = "Search" /\ call.ctxDone

\* The shard searches whose result was delivered before the cancellation.
deliveredAtCancel ==
    {k \in registered : call.atCancel[k] \in {"delivered", "completed", "canceled"}}

RECURSIVE filesOf(_)
\* The number of files in the results of the shards S.
filesOf(S) ==
    IF S = {} THEN 0
    ELSE LET k == CHOOSE k \in S : TRUE IN Len(task[k].sr.Files) + filesOf(S \ {k})

\* C14: once the context is canceled, every shard search that has not yet
\* completed returns an empty result and no error, and the Search returns,
\* with no error, the merge of exactly the results delivered before the
\* cancellation.
C14_CancelEmptiesTheRest ==
    canceledSearchReturned =>
        /\ call.err = "nil"
        /\ \A k \in registered \ deliveredAtCancel :
               shards[k] = "rankSearcher" => task[k].sr = EmptyResult
        /\ Len(aggregate.Files) = filesOf(deliveredAtCancel)
        /\ aggregate.MatchCount = sumMatches(task, deliveredAtCancel)

\* What holds: a shard called after the cancellation returns an empty result
\* and no error, and the Search returns, with no error, the merge of the
\* results of all its shards, those delivered after the cancellation too.
CancelEmptiesTheShardsCalledLater ==
    canceledSearchReturned =>
        /\ call.err = "nil"
        /\ \A k \in registered :
               (call.atCancel[k] = "queued" /\ shards[k] = "rankSearcher")
                   => task[k].sr = EmptyResult
        /\ Len(aggregate.Files) = filesOf(registered)
        /\ aggregate.MatchCount = sumMatches(task, registered)

\* A List over index shards has returned.
listReturned == call.returned /\ call.op = "List" /\ call.err = "nil"

\* The index shards that hold the repository named n.
holders(n) ==
    {k \in registered : shards[k] \in IndexSearchers /\ Repository(shards[k]).Name = n}

\* The repositories of the registered index shards.
heldRepos == {Repository(shards[k]) : k \in {j \in registered : shards[j] \in IndexSearchers}}

\* C15: a sharded List returns each repository once, with Stats.Shards the
\* number of shards that reported it. With Minimal set, a repository with an
\* ID above 0 is only in the Minimal map, under its ID and with its
\* HasSymbols and Branches, and a repository with the ID 0 is only in Repos;
\* with Minimal unset or nil options all repositories are in Repos and
\* Minimal is empty.
C15_ListDeduplicates ==
    listReturned =>
        /\ \A a, b \in aggregate.Repos : a.Name = b.Name => a = b
        /\ \A a, b \in aggregate.Minimal : a.ID = b.ID => a = b
        /\ \A a \in aggregate.Repos :
               /\ a.Shards = Cardinality(holders(a.Name))
               /\ \E r \in heldRepos : a = RepoListEntry(r, a.Shards)
        /\ \A m \in aggregate.Minimal : \E r \in heldRepos : m = MinimalRepoListEntry(r)
        /\ \A r \in heldRepos :
               LET inRepos == \E a \in aggregate.Repos : a.Name = r.Name
                   inMinimal == \E m \in aggregate.Minimal : m.ID = r.ID
               IN  IF call.ListOptions = "Minimal=true" /\ r.ID > 0
                   THEN inMinimal /\ ~inRepos
                   ELSE inRepos /\ ~inMinimal
        /\ call.ListOptions # "Minimal=true" => aggregate.Minimal = {}

\* A minimal List over two shards of the repository with an ID and a shard
\* of the one without.
C15_Witness ==
    /\ listReturned
    /\ call.ListOptions = "Minimal=true"
    /\ Cardinality(holders(1)) = 2
    /\ Cardinality(holders(2)) = 1
    /\ Cardinality(aggregate.Repos) = 1
    /\ Cardinality(aggregate.Minimal) = 1

\* ------------------------------------------------------- type-repo rewriter
\*
\* A typeRepoSearcher wraps a searcher and, before it passes a query on,
\* replaces every type:repo sub-query by the set of the repositories its
\* child lists.  A query is a record with a kind; the underlying searcher is
\* known by the outcomes of its successive List calls.

\* query.Substring, query.Type, query.And, query.RepoSet and a nil query
Substring(pat) == [kind |-> "Substring", Pattern |-> pat]

Type(t, child) == [kind |-> "Type", Type |-> t, Child |-> child]

And(children) == [kind |-> "And", Children |-> children]

RepoSet(set) == [kind |-> "RepoSet", Set |-> set]

NilQuery == [kind |-> "nil"]

\* The queries handed to the typeRepoSearcher.
Queries ==
    { Substring("a"),
      Type("TypeRepo", Substring("a")),
      Type("TypeFileName", Substring("a")),
      And(<<Type("TypeRepo", Substring("a")), Type("TypeRepo", Substring("b"))>>),
      Type("TypeRepo", Type("TypeRepo", Substring("a"))),
      And(<<Type("TypeFileName", Substring("a")), Type("TypeRepo", Substring("b"))>>),
      And(<<Type("TypeRepo", Substring("a")), Substring("b")>>) }

\* The most List calls one call of the model makes of the underlying
\* searcher: two type:repo nodes and the List that is passed on.
MaxListCalls == 3

\* By the number of the List call, whether the underlying searcher fails it.
ListOutcomes == [1..MaxListCalls -> {"ok", "fail"}]

\* The error of the n-th List call of the underlying searcher, when it fails.
listError(n) == IF n = 1 THEN "error 1" ELSE IF n = 2 THEN "error 2" ELSE "error 3"

\* rl.Repos of the underlying List(q), by the names of the repositories: the
\* searcher holds two shards of repository 1 and one of repository 2;
\* pattern "a" is found in all of them, pattern "b" in repository 2 only, and
\* a RepoSet lists the shards of its repositories.
underlyingList(q) ==
    IF q.kind = "Substring"
    THEN (IF q.Pattern = "a" THEN <<1, 1, 2>> ELSE <<2>>)
    ELSE IF q.kind = "RepoSet"
    THEN SelectSeq(<<1, 1, 2>>, LAMBDA name : name \in q.Set)
    ELSE <<>>

\* rs.Set[r.Repository.Name] = true, for every r of rl.Repos
repoNames(repos) == {repos[k] : k \in 1..Len(repos)}

\* The state of one eval: the error variable of the closure, and the queries
\* the underlying List was called with so far.
NoWalk == [err |-> "nil", calls |-> <<>>]

\* The function eval hands to query.Map, without its first test: it goes on
\* calling List after an error.
evalNodeNoGuard(q, st, outcomes) ==
    IF q.kind # "Type" THEN [q |-> q, st |-> st]
    ELSE IF q.Type # "TypeRepo" THEN [q |-> q, st |-> st]
    ELSE LET n == Len(st.calls) + 1
             called == Append(st.calls, q.Child)
         IN  IF outcomes[n] = "fail"
             THEN [q |-> NilQuery, st |-> [err |-> listError(n), calls |-> called]]
             ELSE [q |-> RepoSet(repoNames(underlyingList(q.Child))), st |-> [err |-> "nil", calls |-> called]]

\* The function eval hands to query.Map, without its test of the type: it
\* replaces every Type node.
evalNodeAnyType(q, st, outcomes) ==
    IF st.err # "nil" THEN [q |-> NilQuery, st |-> st]
    ELSE IF q.kind # "Type" THEN [q |-> q, st |-> st]
    ELSE LET n == Len(st.calls) + 1
             called == Append(st.calls, q.Child)
         IN  IF outcomes[n] = "fail"
             THEN [q |-> NilQuery, st |-> [err |-> listError(n), calls |-> called]]
             ELSE [q |-> RepoSet(repoNames(underlyingList(q.Child))),
                   st |-> [err |-> "nil", calls |-> called]]

\* The function eval hands to query.Map, applied to the node q: the new node
\* and the new state of the closure.
evalNode(q, st, outcomes) ==
    IF st.err # "nil" THEN [q |-> NilQuery, st |-> st]
    ELSE IF q.kind # "Type" THEN [q |-> q, st |-> st]
    ELSE IF q.Type # "TypeRepo" THEN [q |-> q, st |-> st]
    ELSE LET n == Len(st.calls) + 1
             called == Append(st.calls, q.Child)
         IN  IF outcomes[n] = "fail"
             THEN [q |-> NilQuery, st |-> [err |-> listError(n), calls |-> called]]
             ELSE [q |-> RepoSet(repoNames(underlyingList(q.Child))), st |-> [err |-> "nil", calls |-> called]]

RECURSIVE Map(_, _, _)
\* query.Map(q, f): the children are mapped first, from left to right, and f
\* is then applied to the node rebuilt around them.
Map(q, st, outcomes) ==
    IF q.kind = "Type"
    THEN LET c == Map(q.Child, st, outcomes)
         IN  evalNode(Type(q.Type, c.q), c.st, outcomes)
    ELSE IF q.kind = "And"
    THEN LET c1 == Map(q.Children[1], st, outcomes)
             c2 == Map(q.Children[2], c1.st, outcomes)
         IN  evalNode(And(<<c1.q, c2.q>>), c2.st, outcomes)
    ELSE evalNode(q, st, outcomes)

\* s.eval(ctx, q): the rewritten query, the error, and the List calls made
eval(q, outcomes) ==
    LET r == Map(q, NoWalk, outcomes)
    IN  [q |-> r.q, err |-> r.st.err, calls |-> r.st.calls]

\* No call of the typeRepoSearcher so far. passed is the call passed on to
\* the underlying searcher ("none" when there was none) and passedQ its query;
\* events are the events on the channel StreamSearch returned, when it made
\* the channel itself.
NoTypeRepoCall ==
    [op |-> "none", q |-> NilQuery, outcomes |-> [n \in 1..MaxListCalls |-> "ok"],
     evalCalls |-> <<>>, passed |-> "none", passedQ |-> NilQuery,
     result |-> "nil", err |-> "nil", events |-> <<>>, closed |-> FALSE]

typeRepoIdle == tcall = NoTypeRepoCall

\* The outcome of the List that is passed on, the call after those of eval.
passedListErr(e, outcomes) ==
    IF outcomes[Len(e.calls) + 1] = "fail" THEN listError(Len(e.calls) + 1) ELSE "nil"

\* s.Search(ctx, q, opts)
TypeRepoSearch(q, outcomes) ==
    /\ LET e == eval(q, outcomes)
       IN  tcall' =
               IF e.err # "nil"
               THEN [NoTypeRepoCall EXCEPT !.op = "Search", !.q = q, !.outcomes = outcomes,
                                           !.evalCalls = e.calls, !.err = e.err]
               ELSE [NoTypeRepoCall EXCEPT !.op = "Search", !.q = q, !.outcomes = outcomes,
                                           !.evalCalls = e.calls, !.passed = "Search",
                                           !.passedQ = e.q, !.result = "SearchResult"]
    /\ UNCHANGED notTypeRepoVars

\* s.List(ctx, q)
TypeRepoList(q, outcomes) ==
    /\ LET e == eval(q, outcomes)
       IN  tcall' =
               IF e.err # "nil"
               THEN [NoTypeRepoCall EXCEPT !.op = "List", !.q = q, !.outcomes = outcomes,
                                           !.evalCalls = e.calls, !.err = e.err]
               ELSE [NoTypeRepoCall EXCEPT
                        !.op = "List", !.q = q, !.outcomes = outcomes,
                        !.evalCalls = e.calls, !.passed = "List", !.passedQ = e.q,
                        !.result = IF passedListErr(e, outcomes) = "nil"
                                   THEN "RepoList" ELSE "nil",
                        !.err = passedListErr(e, outcomes)]
    /\ UNCHANGED notTypeRepoVars

\* s.StreamSearch(ctx, q, opts)
TypeRepoStreamSearch(q, outcomes) ==
    /\ LET e == eval(q, outcomes)
       IN  tcall' =
               IF e.err # "nil"
               THEN [NoTypeRepoCall EXCEPT !.op = "StreamSearch", !.q = q,
                                           !.outcomes = outcomes, !.evalCalls = e.calls,
                                           !.err = e.err,
                                           !.events = <<[Error |-> e.err]>>,
                                           !.closed = TRUE]
               ELSE [NoTypeRepoCall EXCEPT !.op = "StreamSearch", !.q = q,
                                           !.outcomes = outcomes, !.evalCalls = e.calls,
                                           !.passed = "StreamSearch", !.passedQ = e.q,
                                           !.result = "channel"]
    /\ UNCHANGED notTypeRepoVars

\* ---------------------------------------------- claims: type-repo rewriter

RECURSIVE typeRepoNodes(_)
\* The number of type:repo nodes of the query q.
typeRepoNodes(q) ==
    IF q.kind = "Type"
    THEN (IF q.Type = "TypeRepo" THEN 1 ELSE 0) + typeRepoNodes(q.Child)
    ELSE IF q.kind = "And"
    THEN typeRepoNodes(q.Children[1]) + typeRepoNodes(q.Children[2])
    ELSE 0

\* The type:repo nodes whose List fails, by their place in the walk.
failingNodes == {n \in 1..typeRepoNodes(tcall.q) : tcall.outcomes[n] = "fail"}

firstFailure == CHOOSE n \in failingNodes : \A m \in failingNodes : n <= m

\* C16: when the underlying List fails for a type:repo node, the call returns
\* the error of the first failure, no List is called for the type:repo nodes
\* after it, and the underlying Search, List or StreamSearch is not invoked;
\* StreamSearch delivers one event with the error and closes the channel.
C16_RewriteFailure ==
    (tcall.op # "none" /\ failingNodes # {}) =>
        /\ tcall.err = listError(firstFailure)
        /\ Len(tcall.evalCalls) = firstFailure
        /\ tcall.passed = "none"
        /\ tcall.op \in {"Search", "List"} =>
               /\ tcall.result = "nil"
               /\ tcall.events = <<>>
        /\ tcall.op = "StreamSearch" =>
               /\ tcall.events = <<[Error |-> listError(firstFailure)]>>
               /\ tcall.closed

\* The List of the first of two type:repo nodes fails: the second is not
\* listed, though its List would fail too.
C16_Witness ==
    /\ tcall.op = "StreamSearch"
    /\ typeRepoNodes(tcall.q) = 2
    /\ failingNodes = {1, 2}
    /\ Len(tcall.evalCalls) = 1
    /\ tcall.err = "error 1"
    /\ tcall.passed = "none"
    /\ Len(tcall.events) = 1

\* Without a failure the query is passed on with every type:repo node
\* replaced by the set of the listed repositories.
RewritePassesOn ==
    (tcall.op # "none" /\ failingNodes = {}) =>
        /\ tcall.passed = tcall.op
        /\ Len(tcall.evalCalls) = typeRepoNodes(tcall.q)
        /\ typeRepoNodes(tcall.passedQ) = 0

RECURSIVE rewritten(_)
\* The query q with every type:repo node replaced, from the leaves up, by the
\* set of the names the underlying searcher lists for the node's child.
rewritten(q) ==
    IF q.kind = "Type"
    THEN IF q.Type = "TypeRepo"
         THEN RepoSet(repoNames(underlyingList(rewritten(q.Child))))
         ELSE Type(q.Type, rewritten(q.Child))
    ELSE IF q.kind = "And"
    THEN And(<<rewritten(q.Children[1]), rewritten(q.Children[2])>>)
    ELSE q

RECURSIVE typeRepoChildren(_)
\* The children of the type:repo nodes of q as eval lists them: rewritten,
\* and in the order of the walk.
typeRepoChildren(q) ==
    IF q.kind = "Type"
    THEN typeRepoChildren(q.Child) \o
             (IF q.Type = "TypeRepo" THEN <<rewritten(q.Child)>> ELSE <<>>)
    ELSE IF q.kind = "And"
    THEN typeRepoChildren(q.Children[1]) \o typeRepoChildren(q.Children[2])
    ELSE <<>>

\* C26: when no List fails, the query passed to the underlying Search, List
\* or StreamSearch is the query of the call with every node of shape
\* Type(TypeRepo, child) replaced by a RepoSet of exactly the names of the
\* repositories the underlying List(child) returned and every other node
\* unchanged, and List was called once for the child of each such node.
C26_RewriteResult ==
    (tcall.op # "none" /\ failingNodes = {}) =>
        /\ tcall.passed = tcall.op
        /\ tcall.passedQ = rewritten(tcall.q)
        /\ tcall.evalCalls = typeRepoChildren(tcall.q)
        /\ typeRepoNodes(tcall.q) > 0 => tcall.passedQ # tcall.q

\* A conjunction of a type:filename node, which stays, and a type:repo node
\* whose child is found in one repository only, passed on to Search.
C26_Witness ==
    /\ tcall.op = "Search"
    /\ tcall.passed = "Search"
    /\ tcall.q = And(<<Type("TypeFileName", Substring("a")), Type("TypeRepo", Substring("b"))>>)
    /\ tcall.passedQ = And(<<Type("TypeFileName", Substring("a")), RepoSet({2})>>)
    /\ tcall.evalCalls = <<Substring("b")>>

\* ------------------------------------------- index builder, package codesearch
\*
\* The builder that keeps its posting lists as slices of uint32 offsets: a
\* file's content and name are byte strings, and a posting is the uint32
\* <<hi, lo>> of the offset of a trigram in the concatenation of all contents
\* (or of all names).

\* The most files added to one builder.
MaxFiles == 3

\* The files handed to AddFile, name and content:
\*   "f1": "abcabc", "F2": "Abcd", "f3": "ab", "f4": "xABCx", "f5": ""
Files ==
    { [name |-> <<102, 49>>, content |-> <<97, 98, 99, 97, 98, 99>>],
      [name |-> <<70, 50>>, content |-> <<65, 98, 99, 100>>],
      [name |-> <<102, 51>>, content |-> <<97, 98>>],
      [name |-> <<102, 52>>, content |-> <<120, 65, 66, 67, 120>>],
      [name |-> <<102, 53>>, content |-> <<>>] }

\* The keys the posting maps of the model can get: a map of Go gives the nil
\* slice for a key it does not hold.
FileNgrams == UNION {ngramsOf(f.content) \cup ngramsOf(f.name) : f \in Files}

\* splitCase(data): the lowercased data and, byte by byte, whether the byte
\* was an uppercase letter.
splitCase(data) ==
    [data |-> [k \in 1..Len(data) |-> lowerRune(data[k])],
     caseBits |-> [k \in 1..Len(data) |-> IF 65 <= data[k] /\ data[k] <= 90 THEN 1 ELSE 0]]

RECURSIVE postTrigramsNoStart(_, _, _, _)
\* Postings of the index within the file, without the start offset.
postTrigramsNoStart(data, startOff, postings, i) ==
    IF i >= Len(data) \/ i + ngramSize > Len(data) THEN postings
    ELSE LET ngram == Slice(data, i, i + ngramSize)
         IN  postTrigramsNoStart(data, startOff,
                                 [postings EXCEPT ![ngram] = Append(@, w32(i))],
                                 i + 1)

RECURSIVE postTrigrams(_, _, _, _)
\* for i := range dest.data { if i+ngramSize > len(dest.data) { break }
\*   postings[ngram] = append(postings[ngram], startOff+uint32(i)) }
postTrigrams(data, startOff, postings, i) ==
    IF i >= Len(data) \/ i + ngramSize > Len(data) THEN postings
    ELSE LET ngram == Slice(data, i, i + ngramSize)
         IN  postTrigrams(data, startOff,
                          [postings EXCEPT ![ngram] = Append(@, w32Add(startOff, w32(i)))],
                          i + 1)

\* newSearchableString(data, startOff, postings) of package codesearch: the
\* string it returns and the postings map as it leaves it.
codesearchNewSearchableString(data, startOff, postings) ==
    LET dest == splitCase(data)
    IN  [str |-> [data |-> dest.data, caseBits |-> dest.caseBits, offset |-> startOff],
         postings |-> postTrigrams(dest.data, startOff, postings, 0)]

\* NewIndexBuilder() of package codesearch
codesearchNewIndexBuilder ==
    [contentEnd |-> w32(0),
     nameEnd |-> w32(0),
     files |-> <<>>,
     fileNames |-> <<>>,
     contentPostings |-> [ng \in FileNgrams |-> <<>>],
     namePostings |-> [ng \in FileNgrams |-> <<>>]]

\* An AddFile that leaves contentEnd and nameEnd as they were.
AddFileKeepsEnd(b, name, content) ==
    LET c == codesearchNewSearchableString(content, b.contentEnd, b.contentPostings)
        n == codesearchNewSearchableString(name, b.nameEnd, b.namePostings)
    IN  [b EXCEPT !.files = Append(@, c.str),
                  !.fileNames = Append(@, n.str),
                  !.contentPostings = c.postings,
                  !.namePostings = n.postings]

\* b.AddFile(name, content)
AddFile(b, name, content) ==
    LET c == codesearchNewSearchableString(content, b.contentEnd, b.contentPostings)
        n == codesearchNewSearchableString(name, b.nameEnd, b.namePostings)
    IN  [b EXCEPT !.files = Append(@, c.str),
                  !.fileNames = Append(@, n.str),
                  !.contentPostings = c.postings,
                  !.namePostings = n.postings,
                  !.contentEnd = w32Add(@, w32(Len(content))),
                  !.nameEnd = w32Add(@, w32(Len(name)))]

\* b := NewIndexBuilder()
fileIdle == fb = codesearchNewIndexBuilder

\* b.AddFile(f.name, f.content)
AddFileCall(f) ==
    /\ Len(fb.files) < MaxFiles
    /\ fb' = AddFile(fb, f.name, f.content)
    /\ UNCHANGED notFileVars

\* ------------------------------------------------- claims: posting order

RECURSIVE lengthBefore(_, _)
\* The sum of the lengths of the contents of the files before the k-th.
lengthBefore(files, k) ==
    IF k <= 1 THEN 0 ELSE Len(files[k - 1].data) + lengthBefore(files, k - 1)

\* Where the trigram ng occurs: the offsets, in the concatenation of the
\* contents, of its occurrences within the files.
occurrences(files, ng) ==
    { lengthBefore(files, k) + i : <<k, i>> \in
        { p \in (1..Len(files)) \X (0..6) :
            /\ p[2] + ngramSize <= Len(files[p[1]].data)
            /\ Slice(files[p[1]].data, p[2], p[2] + ngramSize) = ng } }

\* C25: after any sequence of AddFile calls every content posting list is
\* strictly ascending and holds exactly the offsets of the trigram's
\* occurrences, each the start offset of its file (the sum of the lengths of
\* the contents added before it) plus the position within the file.
C25_PostingsAscend ==
    /\ \A k \in 1..Len(fb.files) :
           w32Int(fb.files[k].offset) = lengthBefore(fb.files, k)
    /\ \A ng \in FileNgrams :
           LET list == fb.contentPostings[ng]
           IN  /\ \A n \in 1..(Len(list) - 1) : w32Int(list[n]) < w32Int(list[n + 1])
               /\ {w32Int(list[n]) : n \in 1..Len(list)} = occurrences(fb.files, ng)

\* A trigram with two postings in one file and one in a later file, which
\* starts after a file too short for any trigram.
C25_Witness ==
    /\ Len(fb.files) = 3
    /\ Len(fb.files[2].data) = 2
    /\ \E ng \in FileNgrams :
           /\ Len(fb.contentPostings[ng]) = 3
           /\ w32Int(fb.contentPostings[ng][3]) > w32Int(fb.files[3].offset)
           /\ w32Int(fb.files[3].offset) = 8

\* ---------------------------------------------------------- specifications

\* The filter model: operations on the filter variables b and bi.
Init ==
    /\ bloomIdle
    /\ deltaIdle
    /\ convertIdle
    /\ shardsIdle
    /\ prioIdle
    /\ typeRepoIdle
    /\ fileIdle

Next ==
    \/ \E h \in HasherNames : Make(h)
    \/ \E v \in FilterVars, d \in Inputs : AddBytes(v, d)
    \/ \E dst \in FilterVars, t \in Targets : ShrinkToSize(dst, t)
    \/ \E v \in FilterVars : Encode(v)
    \/ \E x \in TestBufs : ReadBuf(x)
    \/ \E v \in FilterVars : Decode(v)

Spec == Init /\ [][Next]_vars

\* The posting-list model: offsets is a posting list of a shard, ascending.
InitDeltas ==
    /\ offsets \in AscendingOffsets
    /\ deltas = <<>>
    /\ decoded = <<>>
    /\ dpc = "start"
    /\ bloomIdle
    /\ convertIdle
    /\ shardsIdle
    /\ prioIdle
    /\ typeRepoIdle
    /\ fileIdle

NextDeltas ==
    \/ ToDeltas
    \/ ReadDeltas

SpecDeltas == InitDeltas /\ [][NextDeltas]_vars

\* The conversion model: a builder takes documents and writes a shard, which
\* is parsed, converted and written again.
InitConvert ==
    /\ \E t \in IndexTimes : builder = [NewIndexBuilder EXCEPT !.indexTime = t]
    /\ srcIF = <<>>
    /\ srcD = NoIndexData
    /\ b2 = NewIndexBuilder
    /\ buf2 = <<>>
    /\ Version \in ZoektVersions
    /\ cpc = "build"
    /\ bloomIdle
    /\ deltaIdle
    /\ shardsIdle
    /\ prioIdle
    /\ typeRepoIdle
    /\ fileIdle

NextConvert ==
    \/ \E doc \in Documents : AddDocument(doc)
    \/ WriteShard
    \/ OpenShard
    \/ Convert
    \/ WriteAgain

SpecConvert == InitConvert /\ [][NextConvert]_vars

\* The sharded searcher: some shards are registered, and one Search or List
\* runs over them.
InitShards ==
    /\ shards \in [ShardKeys -> SearcherKinds \cup {"none"}]
    /\ call = NoCall
    /\ task = [k \in ShardKeys |-> NoTask]
    /\ aggregate = NoAggregate
    /\ pending = <<>>
    /\ bloomIdle
    /\ deltaIdle
    /\ convertIdle
    /\ prioIdle
    /\ typeRepoIdle
    /\ fileIdle

NextShards ==
    \/ \E c \in MatchCounts, p \in Parallelism : StartCall("Search", c, "nil", p)
    \/ \E p \in Parallelism : StartCall("List", 0, "nil", p)
    \/ \E k \in ShardKeys : Dispatch(k)
    \/ \E k \in ShardKeys : Deliver(k)
    \/ \E k \in ShardKeys : Merge(k)
    \/ Cancel
    \/ Return

SpecShards == InitShards /\ [][NextShards]_vars

\* A Search over a searcher with every key registered, under fair scheduling:
\* a free worker takes a queued shard, a called shard returns or panics, a
\* delivered result is merged, and the call returns once every shard search
\* has ended.
InitLife ==
    /\ shards \in [ShardKeys -> SearcherKinds]
    /\ call = NoCall
    /\ task = [k \in ShardKeys |-> NoTask]
    /\ aggregate = NoAggregate
    /\ pending = <<>>
    /\ bloomIdle
    /\ deltaIdle
    /\ convertIdle
    /\ prioIdle
    /\ typeRepoIdle
    /\ fileIdle

NextLife ==
    \/ \E c \in MatchCounts, p \in Parallelism : StartCall("Search", c, "nil", p)
    \/ \E k \in ShardKeys : Dispatch(k)
    \/ \E k \in ShardKeys : Deliver(k)
    \/ \E k \in ShardKeys : Merge(k)
    \/ Cancel
    \/ Return

SpecLife ==
    /\ InitLife
    /\ [][NextLife]_vars
    /\ WF_vars(\E k \in ShardKeys : Dispatch(k))
    /\ WF_vars(\E k \in ShardKeys : Deliver(k))
    /\ WF_vars(\E k \in ShardKeys : Merge(k))
    /\ WF_vars(Return)

\* The sharded searcher over index shards: a List with or without options,
\* which its caller does not cancel.
InitList ==
    /\ shards \in [ShardKeys -> IndexSearchers \cup {"crashSearcher", "none"}]
    /\ call = NoCall
    /\ task = [k \in ShardKeys |-> NoTask]
    /\ aggregate = NoAggregate
    /\ pending = <<>>
    /\ bloomIdle
    /\ deltaIdle
    /\ convertIdle
    /\ prioIdle
    /\ typeRepoIdle
    /\ fileIdle

NextList ==
    \/ \E lo \in ListOpts, p \in Parallelism : StartCall("List", 0, lo, p)
    \/ \E k \in ShardKeys : Dispatch(k)
    \/ \E k \in ShardKeys : Deliver(k)
    \/ \E k \in ShardKeys : Merge(k)
    \/ Return

SpecList == InitList /\ [][NextList]_vars

\* The priority slice on its own: p := &prioritySlice{}, then appends and
\* removes.
InitPrio ==
    /\ prioIdle
    /\ typeRepoIdle
    /\ fileIdle
    /\ bloomIdle
    /\ deltaIdle
    /\ convertIdle
    /\ shardsIdle

NextPrio ==
    \/ \E v \in PrioValues : PrioAppend(v)
    \/ \E v \in PrioValues : PrioRemove(v)

SpecPrio == InitPrio /\ [][NextPrio]_vars

\* The type-repo rewriter: calls of a typeRepoSearcher, one after another.
InitTypeRepo ==
    /\ typeRepoIdle
    /\ fileIdle
    /\ bloomIdle
    /\ deltaIdle
    /\ convertIdle
    /\ shardsIdle
    /\ prioIdle

NextTypeRepo ==
    \/ \E q \in Queries, o \in ListOutcomes : TypeRepoSearch(q, o)
    \/ \E q \in Queries, o \in ListOutcomes : TypeRepoList(q, o)
    \/ \E q \in Queries, o \in ListOutcomes : TypeRepoStreamSearch(q, o)

SpecTypeRepo == InitTypeRepo /\ [][NextTypeRepo]_vars

\* The file builder: b := NewIndexBuilder(), then AddFile calls.
InitFiles ==
    /\ fileIdle
    /\ bloomIdle
    /\ deltaIdle
    /\ convertIdle
    /\ shardsIdle
    /\ prioIdle
    /\ typeRepoIdle

NextFiles == \E f \in Files : AddFileCall(f)

SpecFiles == InitFiles /\ [][NextFiles]_vars

=============================================================================
